---- MODULE Spec2Model ----
(***************************************************************************)
(* Model of the statute search core of law-search-be and of its account   *)
(* endpoints:                                                              *)
(*   app/services/textproc.py       normalize_article_query                *)
(*   app/services/search_service.py get_indexes_by_scope, search_in_index, *)
(*                                  normalize_hit, rescore,                *)
(*                                  multi_index_search                     *)
(*   app/routes/search.py           search                                 *)
(*   app/routers/search.py          search, as main.py mounts it           *)
(*   app/routers/auth.py            auth_callback                          *)
(*   app/deps/auth.py               get_current_user                       *)
(*   app/routers/bookmarks.py       get_bookmarks, create_bookmark,        *)
(*                                  delete_bookmark                        *)
(*                                                                         *)
(* Encoding of Python values                                               *)
(*   str   a sequence of one-character strings when the code looks inside  *)
(*         it (query, joCode, heading), an atomic string otherwise         *)
(*         (lawCode, index name, scope).  TLA+ source is ASCII, so the     *)
(*         three Hangul syllables the code tests for are written           *)
(*           "J" = U+C81C (je)   "O" = U+C870 (jo)   "U" = U+C758 (ui)     *)
(*   dict  a function whose DOMAIN is the set of keys that are present     *)
(*   None  the empty tuple << >>; a value v that may be None is <<v>>      *)
(*   float relevance scores are whole-valued, modelled as integers         *)
(***************************************************************************)
EXTENDS Integers, Sequences, FiniteSets, TLC

VARIABLES
    pc,         \* position of the search request handler
    req,        \* the request parameters (q, scope, limit, offset, strict)
    indexes,    \* multi_index_search: indexes
    idx_i,      \* multi_index_search: position of the for loop over indexes
    all_hits,   \* multi_index_search: all_hits
    sent,       \* the payloads posted to the engine, in order
    replies,    \* what the engine answered to each post, in order
    result,     \* what multi_index_search returned (None until it returns)
    response,   \* what the handler gave back to the caller
    cq,         \* classifier harness: the query and its classification
    rs,         \* rescorer harness: raw hit, index, query and the outcome
    env,        \* os.environ when search_service.py is imported
    users,      \* the rows of table users
    bookmarks,  \* the rows of table bookmarks
    seq,        \* the autoincrement sequences of the two tables
    calls       \* the requests to the account endpoints, by call number

vars == <<pc, req, indexes, idx_i, all_hits, sent, replies, result, response,
          cq, rs, env, users, bookmarks, seq, calls>>

(***************************************************************************)
(* Bounds of the model.                                                    *)
(***************************************************************************)
MaxQueryLen == 5
MaxHitsPerIndex == 2
MaxLimit == 2

(***************************************************************************)
(* Python values.                                                          *)
(***************************************************************************)
None == << >>
Some(v) == <<v>>

\* dict.get(key, default)
Get(d, k, default) == IF k \in DOMAIN d THEN d[k] ELSE default

\* dict.get(key): None when the key is absent
GetOpt(d, k) == IF k \in DOMAIN d THEN Some(d[k]) ELSE None

Min(a, b) == IF a <= b THEN a ELSE b

(***************************************************************************)
(* Characters and strings.                                                 *)
(***************************************************************************)
Digits == {"0", "1", "2", "3", "4", "5", "6", "7", "8", "9"}
Spaces == {" "}

DigitVal(c) ==
    CASE c = "0" -> 0 [] c = "1" -> 1 [] c = "2" -> 2 [] c = "3" -> 3
      [] c = "4" -> 4 [] c = "5" -> 5 [] c = "6" -> 6 [] c = "7" -> 7
      [] c = "8" -> 8 [] c = "9" -> 9

DigitChar(n) ==
    CASE n = 0 -> "0" [] n = 1 -> "1" [] n = 2 -> "2" [] n = 3 -> "3"
      [] n = 4 -> "4" [] n = 5 -> "5" [] n = 6 -> "6" [] n = 7 -> "7"
      [] n = 8 -> "8" [] n = 9 -> "9"

\* int(s) for a string of decimal digits
RECURSIVE ParseInt(_)
ParseInt(s) ==
    IF s = << >> THEN 0
    ELSE 10 * ParseInt(SubSeq(s, 1, Len(s) - 1)) + DigitVal(s[Len(s)])

\* f"{n}" for n >= 0
RECURSIVE FormatInt(_)
FormatInt(n) ==
    IF n < 10 THEN <<DigitChar(n)>>
    ELSE FormatInt(n \div 10) \o <<DigitChar(n % 10)>>

\* f"{n:0{w}d}" for n >= 0
RECURSIVE ZeroPad(_, _)
ZeroPad(n, w) ==
    LET s == FormatInt(n)
    IN  IF Len(s) >= w THEN s ELSE <<"0">> \o ZeroPad(n, w - 1)

\* needle in hay
Contains(hay, needle) ==
    \E k \in 0..(Len(hay) - Len(needle)) :
        SubSeq(hay, k + 1, k + Len(needle)) = needle

\* str.lower() on the letters the model uses
LowerChar(c) ==
    CASE c = "A" -> "a" [] c = "B" -> "b" [] OTHER -> c

Lower(s) == [k \in 1..Len(s) |-> LowerChar(s[k])]

\* str.strip()
RECURSIVE LStrip(_)
LStrip(s) ==
    IF s # << >> /\ s[1] \in Spaces THEN LStrip(Tail(s)) ELSE s

RECURSIVE RStrip(_)
RStrip(s) ==
    IF s # << >> /\ s[Len(s)] \in Spaces
    THEN RStrip(SubSeq(s, 1, Len(s) - 1)) ELSE s

Strip(s) == RStrip(LStrip(s))

(***************************************************************************)
(* The regular expressions of normalize_article_query, as the scanner      *)
(* re.match runs.  The pieces of each pattern (a literal, \s*, \d+) match  *)
(* disjoint characters, so the greedy scan never backtracks.  A scan is a  *)
(* position in the string, 0 when the match has failed.                    *)
(***************************************************************************)
\* a literal character at position p
Lit(s, p, c) ==
    IF p >= 1 /\ p <= Len(s) /\ s[p] = c THEN p + 1 ELSE 0

\* \s* from position p
RECURSIVE SkipSpaces(_, _)
SkipSpaces(s, p) ==
    IF p >= 1 /\ p <= Len(s) /\ s[p] \in Spaces THEN SkipSpaces(s, p + 1) ELSE p

\* \d+ from position p
RECURSIVE SkipDigits(_, _)
SkipDigits(s, p) ==
    IF p >= 1 /\ p <= Len(s) /\ s[p] \in Digits THEN SkipDigits(s, p + 1) ELSE p

\* faulty variant: \d* in place of \d+
DigitsStar(s, p) ==
    IF p = 0 THEN 0 ELSE SkipDigits(s, p)

DigitsPlus(s, p) ==
    IF p = 0 THEN 0 ELSE LET e == SkipDigits(s, p) IN IF e > p THEN e ELSE 0

\* $ after a strip(): the end of the string
AtEnd(s, p) == p = Len(s) + 1

NoMatch == [ok |-> FALSE, g1 |-> << >>, g2 |-> << >>]

\* the tail shared by the patterns: (\d+)\s*O$  or  (\d+)\s*OU\s*(\d+)$
NumberJo(s, p) ==
    LET d1 == DigitsPlus(s, p)
        e  == Lit(s, SkipSpaces(s, d1), "O")
    IN  IF d1 # 0 /\ AtEnd(s, e)
        THEN [ok |-> TRUE, g1 |-> SubSeq(s, p, d1 - 1), g2 |-> << >>]
        ELSE NoMatch

NumberJoUi(s, p) ==
    LET d1 == DigitsPlus(s, p)
        u  == Lit(s, Lit(s, SkipSpaces(s, d1), "O"), "U")
        q  == SkipSpaces(s, u)
        d2 == DigitsPlus(s, q)
    IN  IF d1 # 0 /\ u # 0 /\ d2 # 0 /\ AtEnd(s, d2)
        THEN [ok |-> TRUE, g1 |-> SubSeq(s, p, d1 - 1),
              g2 |-> SubSeq(s, q, d2 - 1)]
        ELSE NoMatch

\* r'^(\d+)$'
Pattern1(s) ==
    LET d1 == DigitsPlus(s, 1)
    IN  IF d1 # 0 /\ AtEnd(s, d1)
        THEN [ok |-> TRUE, g1 |-> s, g2 |-> << >>] ELSE NoMatch

\* r'^J\s*(\d+)\s*O$'
Pattern2(s) ==
    LET j == Lit(s, 1, "J")
    IN  IF j = 0 THEN NoMatch ELSE NumberJo(s, SkipSpaces(s, j))

\* r'^J\s*(\d+)\s*OU\s*(\d+)$'
Pattern3(s) ==
    LET j == Lit(s, 1, "J")
    IN  IF j = 0 THEN NoMatch ELSE NumberJoUi(s, SkipSpaces(s, j))

\* r'^(\d+)\s*O$'
Pattern4(s) == NumberJo(s, 1)

\* r'^(\d+)\s*OU\s*(\d+)$'
Pattern5(s) == NumberJoUi(s, 1)

ArticleQuery(no, sub, original) ==
    [is_article_query |-> TRUE, article_no |-> Some(no),
     article_sub_no |-> sub, original |-> original]

\* the five patterns are tried in order; the first that matches decides
first_match(query, m1, m2, m3, m4, m5) ==
    IF m1.ok THEN ArticleQuery(ParseInt(m1.g1), None, query)
    ELSE IF m2.ok THEN ArticleQuery(ParseInt(m2.g1), None, query)
    ELSE IF m3.ok
    THEN ArticleQuery(ParseInt(m3.g1), Some(ParseInt(m3.g2)), query)
    ELSE IF m4.ok THEN ArticleQuery(ParseInt(m4.g1), None, query)
    ELSE IF m5.ok
    THEN ArticleQuery(ParseInt(m5.g1), Some(ParseInt(m5.g2)), query)
    ELSE [is_article_query |-> FALSE, article_no |-> None,
          article_sub_no |-> None, original |-> query]

\* the function after its first line, query = query.strip()
classify_stripped(query) ==
    first_match(query, Pattern1(query), Pattern2(query), Pattern3(query),
                Pattern4(query), Pattern5(query))

normalize_article_query(q) == classify_stripped(Strip(q))

(***************************************************************************)
(* search_service.py: configuration and scope resolution.                  *)
(***************************************************************************)
\* the environment of a deployment that sets none of the variables the
\* service reads
NoEnv == << >>

\* the account tables before the first login
AccountsIdle ==
    /\ users = {}
    /\ bookmarks = {}
    /\ seq = [users |-> 0, bookmarks |-> 0, clock |-> 0]
    /\ calls = << >>

\* search_service.py, lines 14-15: os.getenv(name, default), read once at
\* import
MEILI_INDEX_CIVIL == Get(env, "MEILI_INDEX_CIVIL", "civil-articles")
MEILI_INDEX_CRIMINAL == Get(env, "MEILI_INDEX_CRIMINAL", "criminal-articles")

\* faulty variant: a scope the resolver does not know is searched as "all"
get_indexes_by_scope_default_all(scope) ==
    IF scope = "civil" THEN <<MEILI_INDEX_CIVIL>>
    ELSE IF scope = "criminal" THEN <<MEILI_INDEX_CRIMINAL>>
    ELSE <<MEILI_INDEX_CIVIL, MEILI_INDEX_CRIMINAL>>

get_indexes_by_scope(scope) ==
    IF scope = "all" THEN <<MEILI_INDEX_CIVIL, MEILI_INDEX_CRIMINAL>>
    ELSE IF scope = "civil" THEN <<MEILI_INDEX_CIVIL>>
    ELSE IF scope = "criminal" THEN <<MEILI_INDEX_CRIMINAL>>
    ELSE << >>

\* multi_index_search: the filter expression of the scope
filter_expr(scope) ==
    IF scope = "civil" THEN Some("lawCode = CIVIL_CODE")
    ELSE IF scope = "criminal" THEN Some("lawCode = CRIMINAL_CODE")
    ELSE None

(***************************************************************************)
(* search_in_index: the payload it posts and what it makes of the answer.  *)
(* An answer of the engine is                                              *)
(*   [kind |-> "ok", body |-> dict]   status 200 with a decoded JSON body  *)
(*   [kind |-> "status"]              a status other than 200              *)
(*   [kind |-> "transport"]           httpx.RequestError (timeout, refused)*)
(*   [kind |-> "garbled"]             status 200 with a body that is not   *)
(*                                    JSON: r.json() raises                *)
(***************************************************************************)
\* faulty variant: a citation query is searched on the joCode and heading
\* fields only
search_payload_narrowed(index_name, query, limit, offset, strict, filter) ==
    LET base == [q |-> query, limit |-> limit, offset |-> offset,
                 showRankingScore |-> TRUE]
        narrowed == IF normalize_article_query(query).is_article_query
                    THEN base @@ [attributesToSearchOn |-> <<"joCode", "heading">>]
                    ELSE base
        withStrategy == IF strict THEN narrowed @@ [matchingStrategy |-> "all"]
                        ELSE narrowed
        payload == IF filter # None /\ filter[1] # ""
                   THEN withStrategy @@ [filter |-> filter[1]]
                   ELSE withStrategy
    IN  [index |-> index_name, json |-> payload]

search_payload(index_name, query, limit, offset, strict, filter) ==
    LET base == [q |-> query, limit |-> limit, offset |-> offset,
                 showRankingScore |-> TRUE]
        withStrategy == IF strict THEN base @@ [matchingStrategy |-> "all"]
                        ELSE base
        payload == IF filter # None /\ filter[1] # ""
                   THEN withStrategy @@ [filter |-> filter[1]]
                   ELSE withStrategy
    IN  [index |-> index_name, json |-> payload]

\* faulty variant: the except clause for httpx.RequestError is missing
search_in_index_no_except(reply) ==
    IF reply.kind = "ok"
    THEN [raised |-> None, value |-> reply.body]
    ELSE IF reply.kind = "garbled"
    THEN [raised |-> Some("JSONDecodeError"), value |-> None]
    ELSE IF reply.kind = "transport"
    THEN [raised |-> Some("RequestError"), value |-> None]
    ELSE [raised |-> Some("HTTPException"), value |-> None]

\* line 97, return r.json(), is inside the try, whose only except clause is
\* for httpx.RequestError: the decoder's JSONDecodeError leaves the function
\* as it is
search_in_index(reply) ==
    IF reply.kind = "ok"
    THEN [raised |-> None, value |-> reply.body]
    ELSE IF reply.kind = "garbled"
    THEN [raised |-> Some("JSONDecodeError"), value |-> None]
    ELSE [raised |-> Some("HTTPException"), value |-> None]

(***************************************************************************)
(* normalize_hit                                                           *)
(***************************************************************************)
\* faulty variant: other defaults for a missing articleSubNo and heading
normalize_hit_other_defaults(hit, index_name) ==
    LET raw_law_code == GetOpt(hit, "lawCode")
        law_code ==
            IF raw_law_code = None \/ raw_law_code[1] = ""
            THEN IF index_name = MEILI_INDEX_CIVIL THEN "CIVIL_CODE"
                 ELSE IF index_name = MEILI_INDEX_CRIMINAL THEN "CRIMINAL_CODE"
                 ELSE "UNKNOWN"
            ELSE raw_law_code[1]
    IN  [lawCode |-> law_code,
         index |-> index_name,
         articleNo |-> Get(hit, "articleNo", 0),
         articleSubNo |-> Get(hit, "articleSubNo", 1),
         joCode |-> Get(hit, "joCode", << >>),
         heading |-> Get(hit, "heading", <<"-">>),
         body |-> Get(hit, "body", << >>),
         _rankingScore |-> GetOpt(hit, "_rankingScore"),
         _appScore |-> None]

\* faulty variant: only a missing lawCode is backfilled, an empty one is kept
normalize_hit_keep_empty(hit, index_name) ==
    LET raw_law_code == GetOpt(hit, "lawCode")
        law_code ==
            IF raw_law_code = None
            THEN IF index_name = MEILI_INDEX_CIVIL THEN "CIVIL_CODE"
                 ELSE IF index_name = MEILI_INDEX_CRIMINAL THEN "CRIMINAL_CODE"
                 ELSE "UNKNOWN"
            ELSE raw_law_code[1]
    IN  [lawCode |-> law_code,
         index |-> index_name,
         articleNo |-> Get(hit, "articleNo", 0),
         articleSubNo |-> Get(hit, "articleSubNo", 0),
         joCode |-> Get(hit, "joCode", << >>),
         heading |-> Get(hit, "heading", << >>),
         body |-> Get(hit, "body", << >>),
         _rankingScore |-> GetOpt(hit, "_rankingScore"),
         _appScore |-> None]

normalize_hit(hit, index_name) ==
    LET raw_law_code == GetOpt(hit, "lawCode")
        law_code ==
            IF raw_law_code = None \/ raw_law_code[1] = ""
            THEN IF index_name = MEILI_INDEX_CIVIL THEN "CIVIL_CODE"
                 ELSE IF index_name = MEILI_INDEX_CRIMINAL THEN "CRIMINAL_CODE"
                 ELSE "UNKNOWN"
            ELSE raw_law_code[1]
    IN  [lawCode |-> law_code,
         index |-> index_name,
         articleNo |-> Get(hit, "articleNo", 0),
         articleSubNo |-> Get(hit, "articleSubNo", 0),
         joCode |-> Get(hit, "joCode", << >>),
         heading |-> Get(hit, "heading", << >>),
         body |-> Get(hit, "body", << >>),
         _rankingScore |-> GetOpt(hit, "_rankingScore"),
         _appScore |-> None]

(***************************************************************************)
(* rescore                                                                 *)
(***************************************************************************)
CitationBonus == 900
JoCodeBonus == 1000
HeadingBonus == 50
JoCodeWidth == 6

\* faulty variant: a query without sub-article matches the main article only
article_no_bonus_main_only(hit, article_info) ==
    IF /\ Get(hit, "articleNo", 0) = article_info.article_no[1]
       /\ Get(hit, "articleSubNo", 0) =
             (IF article_info.article_sub_no = None THEN 0
              ELSE article_info.article_sub_no[1])
    THEN CitationBonus ELSE 0

\* faulty variant: the sub-article number is not compared
article_no_bonus_any_sub(hit, article_info) ==
    IF Get(hit, "articleNo", 0) = article_info.article_no[1]
    THEN CitationBonus ELSE 0

\* lines 141-143: the article number matches
article_no_bonus(hit, article_info) ==
    LET target_article_no == article_info.article_no[1]
        target_article_sub_no == article_info.article_sub_no
        hit_article_no == Get(hit, "articleNo", 0)
        hit_article_sub_no == Get(hit, "articleSubNo", 0)
    IN  IF hit_article_no = target_article_no
           /\ (target_article_sub_no = None
               \/ hit_article_sub_no = target_article_sub_no[1])
        THEN CitationBonus ELSE 0

\* faulty variant: the zero-padded joCode is not recognised
jo_code_bonus_text_only(hit, article_info) ==
    LET target_article_no == article_info.article_no[1]
        target_article_sub_no == article_info.article_sub_no
        jo_code == Get(hit, "joCode", << >>)
        je_n_jo == <<"J">> \o FormatInt(target_article_no) \o <<"O">>
    IN  IF Contains(jo_code,
                    IF target_article_sub_no = None THEN je_n_jo
                    ELSE je_n_jo \o <<"U">>
                         \o FormatInt(target_article_sub_no[1]))
        THEN JoCodeBonus ELSE 0

\* lines 146-152: the joCode names the article
jo_code_bonus(hit, article_info) ==
    LET target_article_no == article_info.article_no[1]
        target_article_sub_no == article_info.article_sub_no
        jo_code == Get(hit, "joCode", << >>)
        je_n_jo == <<"J">> \o FormatInt(target_article_no) \o <<"O">>
    IN  IF target_article_sub_no = None
        THEN IF Contains(jo_code, je_n_jo)
                \/ jo_code = ZeroPad(target_article_no, JoCodeWidth)
             THEN JoCodeBonus ELSE 0
        ELSE IF Contains(jo_code, je_n_jo \o <<"U">>
                                  \o FormatInt(target_article_sub_no[1]))
             THEN JoCodeBonus ELSE 0

\* faulty variant: the heading is compared as it is, not lower-cased
heading_bonus_case_sensitive(hit, query) ==
    IF Contains(Get(hit, "heading", << >>), Lower(query))
    THEN HeadingBonus ELSE 0

\* lines 155-158: the heading contains the query
heading_bonus(hit, query) ==
    IF Contains(Lower(Get(hit, "heading", << >>)), Lower(query))
    THEN HeadingBonus ELSE 0

\* faulty variant: the joCode bonus is given only when the number bonus is not
total_bonus_exclusive(hit, query, article_info) ==
    (IF article_info.is_article_query
     THEN IF article_no_bonus(hit, article_info) > 0
          THEN article_no_bonus(hit, article_info)
          ELSE jo_code_bonus(hit, article_info)
     ELSE 0)
    + heading_bonus(hit, query)

\* lines 127-158: the bonus the hit has collected when the return is reached
total_bonus(hit, query, article_info) ==
    (IF article_info.is_article_query
     THEN article_no_bonus(hit, article_info) + jo_code_bonus(hit, article_info)
     ELSE 0)
    + heading_bonus(hit, query)

\* line 161, return base_score + bonus: the value returned, or the
\* TypeError of None + float; bonus is the local of that name at the return
return_score(base_score, bonus) ==
    IF base_score = None
    THEN [raised |-> Some("TypeError"), bonus |-> bonus, value |-> None]
    ELSE [raised |-> None, bonus |-> bonus,
          value |-> Some(base_score[1] + bonus)]

rescore(hit, query) ==
    return_score(Get(hit, "_rankingScore", Some(0)),
                 total_bonus(hit, query, normalize_article_query(query)))

(***************************************************************************)
(* multi_index_search, lines 259-267: rescoring, the sort, the cut.        *)
(***************************************************************************)
\* faulty variant: the engine's score is the sort key
sort_key_base(x) == Get(x, "_rankingScore", Some(0))[1]

\* key=lambda x: x.get("_appScore", 0.0)
sort_key(x) == Get(x, "_appScore", Some(0))[1]

\* faulty variant: equal keys are ordered by ascending (articleNo, articleSubNo)
sort_rank_by_article(hits, k) ==
    1 + Cardinality({j \in 1..Len(hits) :
            \/ sort_key(hits[j]) > sort_key(hits[k])
            \/ /\ sort_key(hits[j]) = sort_key(hits[k])
               /\ \/ hits[j].articleNo < hits[k].articleNo
                  \/ /\ hits[j].articleNo = hits[k].articleNo
                     /\ hits[j].articleSubNo < hits[k].articleSubNo
                  \/ /\ hits[j].articleNo = hits[k].articleNo
                     /\ hits[j].articleSubNo = hits[k].articleSubNo
                     /\ j < k})

\* list.sort(key=..., reverse=True) is a stable sort: a hit goes behind the
\* hits with a greater key and behind the hits with an equal key that came
\* before it.  sort_rank is the place the hit at position k is sorted to.
sort_rank(hits, k) ==
    1 + Cardinality({j \in 1..Len(hits) :
            \/ sort_key(hits[j]) > sort_key(hits[k])
            \/ sort_key(hits[j]) = sort_key(hits[k]) /\ j < k})

\* faulty variant: an ascending sort reversed, which turns equal keys round
sort_desc_last_first(hits) ==
    [p \in 1..Len(hits) |->
        hits[CHOOSE k \in 1..Len(hits) :
                p = 1 + Cardinality({j \in 1..Len(hits) :
                        \/ sort_key(hits[j]) > sort_key(hits[k])
                        \/ sort_key(hits[j]) = sort_key(hits[k]) /\ j > k})]]

sort_desc(hits) ==
    [p \in 1..Len(hits) |->
        hits[CHOOSE k \in 1..Len(hits) : sort_rank(hits, k) = p]]

\* the rescoring loop: every hit's rescore outcome, in order
rescore_all(hits, query) == [k \in 1..Len(hits) |-> rescore(hits[k], query)]

\* all_hits[:limit]
take(hits, limit) == SubSeq(hits, 1, Min(limit, Len(hits)))

\* lines 260-261: a hit is given its _appScore if rescore returned for it
\* and for every hit before it
mark_scores(hits, scored) ==
    [k \in 1..Len(hits) |->
        IF \A j \in 1..k : scored[j].raised = None
        THEN [hits[k] EXCEPT !._appScore = scored[k].value]
        ELSE hits[k]]

\* lines 264-267: the sorted list is all_hits, its first limit hits are
\* returned
return_top(sorted, limit) ==
    [raised |-> None, value |-> Some(take(sorted, limit)), all_hits |-> sorted]

\* lines 260-267 after the rescoring loop has run or has been left
sort_and_return(rescored, limit) ==
    IF \E k \in 1..Len(rescored) : rescored[k]._appScore = None
    THEN [raised |-> Some("TypeError"), value |-> None, all_hits |-> rescored]
    ELSE return_top(sort_desc(rescored), limit)

\* Lines 259-267 on the collected hits: the list returned, or the exception
\* that leaves the function, and the state the loop and the in-place sort
\* leave all_hits in.
merge_hits(hits, query, limit) ==
    sort_and_return(mark_scores(hits, rescore_all(hits, query)), limit)

(***************************************************************************)
(* routes/search.py: the response built from the hits.                     *)
(***************************************************************************)
\* SearchHit(**h): the declared fields; the undeclared _appScore is dropped
SearchHit(h) ==
    [lawCode |-> h.lawCode, index |-> h.index, articleNo |-> h.articleNo,
     articleSubNo |-> h.articleSubNo, joCode |-> h.joCode,
     heading |-> h.heading, body |-> h.body, rankingScore |-> h._rankingScore]

SearchResponse(q, r, hits_data) ==
    LET hits == [k \in 1..Len(hits_data) |-> SearchHit(hits_data[k])]
    IN  [status |-> 200, query |-> q, scope |-> r.scope, limit |-> r.limit,
         offset |-> r.offset, hits |-> hits, count |-> Len(hits)]

ErrorResponse(code) == [status |-> code]

(***************************************************************************)
(* The inputs of the model.                                                *)
(***************************************************************************)
Q218 == <<"2", "1", "8">>
QJe218Jo == <<"J", "2", "1", "8", "O">>
QJe218JoUi2 == <<"J", "2", "1", "8", "O", "U", "2">>
QKeyword == <<"a", "b">>
QBlank == <<" ">>

\* the small page sizes, and the page size the endpoint defaults to
Limits == (1..MaxLimit) \cup {10}

Scopes == {"all", "civil", "criminal", "civil_procedure", "criminal_procedure"}

\* the hit of the end-to-end scenario: no lawCode, article 218, "000218"
HitE2E ==
    [articleNo |-> 218, joCode |-> <<"0", "0", "0", "2", "1", "8">>,
     _rankingScore |-> 10]

HitJo219 ==
    [lawCode |-> "CRIMINAL_CODE", articleNo |-> 219, articleSubNo |-> 0,
     joCode |-> <<"0", "2", "1", "9", "0", "0">>,
     heading |-> <<"J", "2", "1", "9", "O", "(", "a", "b", ")">>,
     body |-> <<"a", "b">>, _rankingScore |-> 1]

HitJo218Ui2 ==
    [lawCode |-> "CIVIL_CODE", articleNo |-> 218, articleSubNo |-> 2,
     joCode |-> <<"0", "2", "1", "8", "0", "2">>,
     heading |-> <<"J", "2", "1", "8", "O", "U", "2", "(", "A", "b", ")">>,
     body |-> <<"a", "b">>, _rankingScore |-> 1]

\* a hit the engine sent without a ranking score
HitNoScore ==
    [articleNo |-> 217, articleSubNo |-> 0,
     joCode |-> <<"0", "2", "1", "7", "0", "0">>,
     heading |-> <<"J", "2", "1", "7", "O">>, body |-> <<"a">>]

RawHitPool == {HitE2E, HitJo219, HitJo218Ui2, HitNoScore}

HitLists == UNION {[1..n -> RawHitPool] : n \in 0..MaxHitsPerIndex}

EngineReplies ==
    {[kind |-> "status"], [kind |-> "transport"], [kind |-> "garbled"],
     [kind |-> "ok", body |-> [estimatedTotalHits |-> 0]]}
    \cup {[kind |-> "ok", body |-> [hits |-> hs, estimatedTotalHits |-> 1000]] :
            hs \in HitLists}

CqIdle == [query |-> << >>, done |-> FALSE, out |-> None]
RsIdle == [hit |-> [articleNo |-> 0], index |-> "", query |-> << >>,
           done |-> FALSE, normalized |-> None, out |-> None]

(***************************************************************************)
(* The search request: routes/search.py search and multi_index_search.     *)
(* The handler runs on the event loop, so it moves at its awaits: one      *)
(* action takes it from one await to the next, or to its end.              *)
(***************************************************************************)
Init ==
    /\ pc = "idle"
    /\ req = None
    /\ indexes = << >>
    /\ idx_i = 0
    /\ all_hits = << >>
    /\ sent = << >>
    /\ replies = << >>
    /\ result = None
    /\ response = None
    /\ cq = CqIdle
    /\ rs = RsIdle
    /\ env = NoEnv
    /\ AccountsIdle

\* multi_index_search, lines 240-246, and search_in_index, lines 67-89: the
\* request that the loop posts to the index at position i
post_search(r, idxs, i) ==
    search_payload(idxs[i], r.q, r.limit * 2, r.offset, r.strict,
                   filter_expr(r.scope))

\* multi_index_search, lines 259-267, and search, lines 51-61: the handler
\* ends with a response, or with the exception that the framework answers
\* with status 500
FinishWith(r, m) ==
    /\ pc' = "done"
    /\ all_hits' = m.all_hits
    /\ IF m.raised = None
       THEN /\ result' = m.value
            /\ response' = Some(SearchResponse(r.q, r, m.value[1]))
       ELSE /\ result' = None
            /\ response' = Some(ErrorResponse(500))

Finish(r, hits) == FinishWith(r, merge_hits(hits, r.q, r.limit))

\* search, lines 15-19: the declarations of the query parameters, which the
\* framework checks before it calls the handler
LimitMin == 1
LimitMax == 50
OffsetMin == 0
QueryMinLength == 1

\* faulty variant: the limit has no upper bound
validate_no_upper_limit(q, scope, limit, offset) ==
    /\ Len(q) >= QueryMinLength
    /\ scope \in Scopes
    /\ limit >= LimitMin
    /\ offset >= OffsetMin

validate(q, scope, limit, offset) ==
    /\ Len(q) >= QueryMinLength
    /\ scope \in Scopes
    /\ limit >= LimitMin
    /\ limit <= LimitMax
    /\ offset >= OffsetMin

\* faulty variant: the requests to all indexes are issued before the first
\* await
Search_fan_out(q, scope, limit, offset, strict) ==
    LET r == [q |-> Strip(q), scope |-> scope, limit |-> limit,
              offset |-> offset, strict |-> strict,
              asked_strict |-> strict, endpoint |-> "routes"]
        idxs == get_indexes_by_scope(scope)
    IN
    /\ pc = "idle"
    /\ req' = Some(r)
    /\ IF ~validate(q, scope, limit, offset)
       THEN /\ response' = Some(ErrorResponse(422))
            /\ pc' = "done"
            /\ UNCHANGED <<indexes, idx_i, sent, result>>
       ELSE IF r.q = << >>
       THEN /\ response' = Some(ErrorResponse(400))
            /\ pc' = "done"
            /\ UNCHANGED <<indexes, idx_i, sent, result>>
       ELSE IF idxs = << >>
       THEN /\ result' = Some(<< >>)
            /\ response' = Some(SearchResponse(r.q, r, << >>))
            /\ pc' = "done"
            /\ UNCHANGED <<indexes, idx_i, sent>>
       ELSE /\ indexes' = idxs
            /\ idx_i' = 1
            /\ sent' = [k \in 1..Len(idxs) |-> post_search(r, idxs, k)]
            /\ pc' = "await"
            /\ UNCHANGED <<result, response>>
    /\ UNCHANGED <<all_hits, replies, cq, rs, env, users, bookmarks, seq, calls>>

\* search, lines 13-49, and multi_index_search, lines 227-246: up to the
\* first await.  A request the declarations reject is answered with status
\* 422 by the framework, and the handler is not called.  r is the request
\* as the handler gives it to multi_index_search, q the query as received.
Handle(r, q) ==
    /\ pc = "idle"
    /\ req' = Some(r)
    /\ IF ~validate(q, r.scope, r.limit, r.offset)
       THEN /\ response' = Some(ErrorResponse(422))
            /\ pc' = "done"
            /\ UNCHANGED <<indexes, idx_i, sent, result>>
       ELSE IF r.q = << >>
       THEN /\ response' = Some(ErrorResponse(400))
            /\ pc' = "done"
            /\ UNCHANGED <<indexes, idx_i, sent, result>>
       ELSE IF get_indexes_by_scope(r.scope) = << >>
       THEN /\ result' = Some(<< >>)
            /\ response' = Some(SearchResponse(r.q, r, << >>))
            /\ pc' = "done"
            /\ UNCHANGED <<indexes, idx_i, sent>>
       ELSE /\ indexes' = get_indexes_by_scope(r.scope)
            /\ idx_i' = 1
            /\ sent' = <<post_search(r, get_indexes_by_scope(r.scope), 1)>>
            /\ pc' = "await"
            /\ UNCHANGED <<result, response>>
    /\ UNCHANGED <<all_hits, replies, cq, rs, env, users, bookmarks, seq, calls>>

\* routes/search.py: the handler that declares strict and passes it on.
\* asked_strict is the flag of the caller, strict the one multi_index_search
\* is given.
Search(q, scope, limit, offset, strict) ==
    Handle([q |-> Strip(q), scope |-> scope, limit |-> limit,
            offset |-> offset, strict |-> strict,
            asked_strict |-> strict, endpoint |-> "routes"], q)

\* routers/search.py, the router main.py mounts: strict is not among its
\* parameters, so the framework drops a strict the caller sends, and
\* multi_index_search is called without it (its default is False)
SearchRouters(q, scope, limit, offset, strict) ==
    Handle([q |-> Strip(q), scope |-> scope, limit |-> limit,
            offset |-> offset, strict |-> FALSE,
            asked_strict |-> strict, endpoint |-> "routers"], q)

\* search_in_index, lines 91-103, and multi_index_search, lines 247-257: the
\* engine's answer is taken in; then the loop posts to the next index, or,
\* after the last index, the handler finishes.  The loop catches
\* HTTPException only: any other exception leaves the handler, which the
\* framework answers with status 500.
Reply(reply) ==
    LET r == search_in_index(reply)
        hits == IF r.raised = None THEN Get(r.value, "hits", << >>) ELSE << >>
        collected == all_hits \o
            [k \in 1..Len(hits) |-> normalize_hit(hits[k], indexes[idx_i])]
    IN
    /\ pc = "await"
    /\ replies' = Append(replies, reply)
    /\ IF r.raised \notin {None, Some("HTTPException")}
       THEN /\ pc' = "done"
            /\ response' = Some(ErrorResponse(500))
            /\ UNCHANGED <<idx_i, all_hits, sent, result>>
       ELSE IF idx_i < Len(indexes)
       THEN /\ idx_i' = idx_i + 1
            /\ all_hits' = collected
            /\ sent' = Append(sent, post_search(req[1], indexes, idx_i + 1))
            /\ pc' = "await"
            /\ UNCHANGED <<result, response>>
       ELSE /\ idx_i' = idx_i + 1
            /\ Finish(req[1], collected)
            /\ UNCHANGED sent
    /\ UNCHANGED <<req, indexes, cq, rs, env, users, bookmarks, seq, calls>>

Next ==
    \/ \E q \in {Q218, QKeyword, QBlank}, scope \in Scopes, limit \in Limits :
          Search(q, scope, limit, 0, FALSE)
    \/ \E reply \in EngineReplies : Reply(reply)

Spec == Init /\ [][Next]_vars

(***************************************************************************)
(* The same handler with every kind of request: valid and invalid          *)
(* parameters, any offset, strict or not, and the kinds of answer of the   *)
(* engine.                                                                 *)
(***************************************************************************)
DispatchQueries == {Q218, QBlank, << >>}
DispatchScopes == Scopes \cup {"tax"}
DispatchLimits == {LimitMin - 1, LimitMin, MaxLimit, LimitMax, LimitMax + 1}
DispatchOffsets == {OffsetMin - 1, OffsetMin, OffsetMin + 1}

DispatchReplies ==
    {[kind |-> "status"], [kind |-> "transport"], [kind |-> "garbled"]}
    \cup {[kind |-> "ok", body |-> [hits |-> hs, estimatedTotalHits |-> 1000]] :
            hs \in {<< >>, <<HitE2E>>}}

NextDispatch ==
    \/ \E q \in DispatchQueries, scope \in DispatchScopes,
          limit \in DispatchLimits, offset \in DispatchOffsets,
          strict \in BOOLEAN :
          Search(q, scope, limit, offset, strict)
    \/ \E q \in DispatchQueries, scope \in DispatchScopes,
          limit \in DispatchLimits, offset \in DispatchOffsets,
          strict \in BOOLEAN :
          SearchRouters(q, scope, limit, offset, strict)
    \/ \E reply \in DispatchReplies : Reply(reply)

SpecDispatch == Init /\ [][NextDispatch]_vars

(***************************************************************************)
(* The classifier on its own: normalize_article_query applied to every     *)
(* string of at most MaxQueryLen characters.                               *)
(***************************************************************************)
QueryAlphabet == {"J", "O", "U", " ", "1", "2", "a"}

QueryStrings == UNION {[1..n -> QueryAlphabet] : n \in 0..MaxQueryLen}

InitClassify ==
    /\ pc = "idle"
    /\ req = None
    /\ indexes = << >>
    /\ idx_i = 0
    /\ all_hits = << >>
    /\ sent = << >>
    /\ replies = << >>
    /\ result = None
    /\ response = None
    /\ cq \in {[query |-> s, done |-> FALSE, out |-> None] : s \in QueryStrings}
    /\ rs = RsIdle
    /\ env = NoEnv
    /\ AccountsIdle

Classify ==
    /\ ~cq.done
    /\ cq' = [cq EXCEPT !.done = TRUE,
                        !.out = Some(normalize_article_query(cq.query))]
    /\ UNCHANGED <<pc, req, indexes, idx_i, all_hits, sent, replies, result,
                   response, rs, env, users, bookmarks, seq, calls>>

NextClassify == Classify

SpecClassify == InitClassify /\ [][NextClassify]_vars

(***************************************************************************)
(* The normalizer and the rescorer on their own: normalize_hit followed by *)
(* rescore, as multi_index_search applies them, on every raw hit built     *)
(* from the field values below.                                            *)
(***************************************************************************)
Q219 == <<"2", "1", "9">>
Q218JoUi1 == <<"2", "1", "8", "O", "U", "1">>

\* the dicts with key k bound to one of vals, and the dict without k
Field(k, vals) == {<< >>} \cup {k :> v : v \in vals}

RescoreHits ==
    {f1 @@ f2 @@ f3 @@ f4 @@ f5 @@ f6 :
        f1 \in Field("lawCode", {"", "CRIMINAL_CODE"}),
        f2 \in Field("articleNo", {218, 219}),
        f3 \in Field("articleSubNo", {1, 2}),
        f4 \in Field("joCode", {<<"0", "0", "0", "2", "1", "8">>,
                                <<"J", "2", "1", "8", "O">>,
                                <<"J", "2", "1", "8", "O", "U", "2">>}),
        f5 \in Field("heading", {<<"J", "2", "1", "8", "O", "(", "A", "b", ")">>}),
        f6 \in Field("_rankingScore", {0, 1, 10})}

RescoreIndexes == {MEILI_INDEX_CIVIL, MEILI_INDEX_CRIMINAL, "other-articles"}

RescoreQueries == {Q218, Q219, QJe218Jo, QJe218JoUi2, Q218JoUi1, QKeyword}

InitRescore ==
    /\ env = NoEnv
    /\ pc = "idle"
    /\ req = None
    /\ indexes = << >>
    /\ idx_i = 0
    /\ all_hits = << >>
    /\ sent = << >>
    /\ replies = << >>
    /\ result = None
    /\ response = None
    /\ cq = CqIdle
    /\ rs \in {[hit |-> h, index |-> i, query |-> q, done |-> FALSE,
                normalized |-> None, out |-> None] :
                  h \in RescoreHits, i \in RescoreIndexes, q \in RescoreQueries}
    /\ AccountsIdle

\* multi_index_search, lines 251 and 261, for one hit
Rescore ==
    /\ ~rs.done
    /\ LET normalized == normalize_hit(rs.hit, rs.index) IN
       rs' = [rs EXCEPT !.done = TRUE,
                        !.normalized = Some(normalized),
                        !.out = Some(rescore(normalized, rs.query))]
    /\ UNCHANGED <<pc, req, indexes, idx_i, all_hits, sent, replies, result,
                   response, cq, env, users, bookmarks, seq, calls>>

NextRescore == Rescore

SpecRescore == InitRescore /\ [][NextRescore]_vars

(***************************************************************************)
(* What the properties speak of.                                           *)
(***************************************************************************)
Done == pc = "done"

\* every index of the scope has been asked and has answered
AllAnswered == Done /\ Len(replies) >= 1 /\ Len(replies) = Len(indexes)

\* the per-index failures: a status other than 200, a transport failure
Failed(reply) == reply.kind \in {"status", "transport"}

\* the raw hits an answer carries
RawHitsOf(reply) ==
    IF reply.kind = "ok" THEN Get(reply.body, "hits", << >>) ELSE << >>

\* the raw hits of the successful calls, each normalized for its index, in
\* dispatch order and, within one index, in the order of the answer
RECURSIVE CollectedUpTo(_)
CollectedUpTo(k) ==
    IF k = 0 THEN << >>
    ELSE CollectedUpTo(k - 1) \o
         [j \in 1..Len(RawHitsOf(replies[k])) |->
             normalize_hit(RawHitsOf(replies[k])[j], indexes[k])]

Collected == CollectedUpTo(Len(replies))

Occurrences(h, hits) == Cardinality({k \in 1..Len(hits) : hits[k] = h})

\* a returned hit as it was before rescoring
Unscored(h) == [h EXCEPT !._appScore = None]

\* hits, without their scores, are hits of pool, none more often than there
SubBagOfCollected(hits, pool) ==
    LET plain == [k \in 1..Len(hits) |-> Unscored(hits[k])]
    IN  \A k \in 1..Len(plain) :
            Occurrences(plain[k], plain) <= Occurrences(plain[k], pool)

(***************************************************************************)
(* C1  Score monotonicity: for every hit that goes through normalize_hit   *)
(* and then rescore, for every query, rescoring completes and the          *)
(* _appScore is at least the base score, a base score the engine did not   *)
(* supply counting as 0.                                                   *)
(***************************************************************************)
C1_ScoreMonotonicity ==
    rs.done =>
        /\ rs.out[1].raised = None
        /\ rs.out[1].value[1] >= Get(rs.hit, "_rankingScore", 0)

(***************************************************************************)
(* C2  Partial failure tolerance: when some but not all of the per-index   *)
(* calls of a search fail, the search raises no error and returns exactly  *)
(* the hits of the successful calls, up to limit, with count the number of *)
(* hits returned.                                                          *)
(***************************************************************************)
PartialFailure ==
    /\ AllAnswered
    /\ \E k \in 1..Len(replies) : Failed(replies[k])
    /\ \E k \in 1..Len(replies) : replies[k].kind = "ok"
    /\ \A k \in 1..Len(replies) : Failed(replies[k]) \/ replies[k].kind = "ok"

C2_PartialFailureTolerance ==
    PartialFailure =>
        /\ response[1].status = 200
        /\ result # None
        /\ Len(result[1]) = Min(req[1].limit, Len(Collected))
        /\ SubBagOfCollected(result[1], Collected)
        /\ response[1].count = Len(result[1])
        /\ Len(response[1].hits) = Len(result[1])

(***************************************************************************)
(* C3  Total outage: when every per-index call of a search fails, the      *)
(* search completes normally with an empty hit list and count 0; no error  *)
(* reaches the caller.                                                     *)
(***************************************************************************)
TotalOutage ==
    /\ AllAnswered
    /\ \A k \in 1..Len(replies) : Failed(replies[k])

C3_TotalOutageIsEmptyResult ==
    (Done /\ replies # << >> /\ \A k \in 1..Len(replies) : Failed(replies[k])) =>
        /\ TotalOutage
        /\ result = Some(<< >>)
        /\ response[1].status = 200
        /\ response[1].hits = << >>
        /\ response[1].count = 0

C3_Witness ==
    /\ TotalOutage
    /\ Len(replies) = 2
    /\ replies[1].kind = "status"
    /\ replies[2].kind = "transport"
    /\ response[1].status = 200
    /\ response[1].count = 0

(***************************************************************************)
(* The order of the merged hits.                                           *)
(***************************************************************************)
\* multi_index_search has been called and has ended
Searched ==
    /\ Done
    /\ req # None
    /\ Len(replies) = Len(indexes)
    /\ response[1].status \notin {400, 422}

AppScore(h) == h._appScore[1]
BaseScore(h) == IF h._rankingScore = None THEN 0 ELSE h._rankingScore[1]

\* the collected hits with the scores rescoring gives them
ScoredCollected ==
    [k \in 1..Len(Collected) |->
        [Collected[k] EXCEPT !._appScore = rescore(Collected[k], req[1].q).value]]

\* the hits of a list that have the score v, in the order of the list
WithScore(hits, v) == SelectSeq(hits, LAMBDA h : h._appScore = v)

IsPrefix(a, b) ==
    /\ Len(a) <= Len(b)
    /\ \A k \in 1..Len(a) : a[k] = b[k]

\* the order the specification gives two hits: appScore descending, then
\* baseScore descending, then (articleNo, articleSubNo) ascending
SpecOrdered(a, b) ==
    \/ AppScore(a) > AppScore(b)
    \/ /\ AppScore(a) = AppScore(b)
       /\ \/ BaseScore(a) > BaseScore(b)
          \/ /\ BaseScore(a) = BaseScore(b)
             /\ \/ a.articleNo < b.articleNo
                \/ a.articleNo = b.articleNo /\ a.articleSubNo <= b.articleSubNo

(***************************************************************************)
(* C4 as the specification states it: the merged hits are sorted by        *)
(* descending appScore, ties broken by descending baseScore, then by       *)
(* ascending (articleNo, articleSubNo).                                    *)
(***************************************************************************)
C4_OrderAsSpecified ==
    (Searched /\ result # None) =>
        \A i, j \in 1..Len(result[1]) :
            i < j => SpecOrdered(result[1][i], result[1][j])

(***************************************************************************)
(* C4  Deterministic merge order, as the code has it: the merged hits are  *)
(* sorted by descending appScore, and hits with the same appScore stay in  *)
(* the order they were collected in (index-dispatch order, then the order  *)
(* of the engine's answer); baseScore and (articleNo, articleSubNo) take   *)
(* no part in the order.                                                   *)
(***************************************************************************)
C4_MergeOrder ==
    (Searched /\ result # None) =>
        /\ \A i, j \in 1..Len(result[1]) :
              i < j => AppScore(result[1][i]) >= AppScore(result[1][j])
        /\ \A k \in 1..Len(result[1]) :
              IsPrefix(WithScore(result[1], result[1][k]._appScore),
                       WithScore(ScoredCollected, result[1][k]._appScore))

C4_Witness ==
    /\ Searched
    /\ result # None
    /\ Len(result[1]) = 2
    /\ AppScore(result[1][1]) = AppScore(result[1][2])
    /\ BaseScore(result[1][1]) = BaseScore(result[1][2])
    /\ result[1][1].articleNo = 219
    /\ result[1][2].articleNo = 218
    /\ Len(RawHitsOf(replies[1])) = 2

(***************************************************************************)
(* The five citation forms, read off the string itself.                    *)
(***************************************************************************)
\* the characters of t after cut a, up to cut b
Seg(t, a, b) == SubSeq(t, a + 1, b)

IsBlank(s) == \A k \in 1..Len(s) : s[k] \in Spaces
IsNumber(s) == s # << >> /\ \A k \in 1..Len(s) : s[k] \in Digits

\* the number a string of digits writes, digit by digit from the left
RECURSIVE DecimalValue(_, _)
DecimalValue(s, acc) ==
    IF s = << >> THEN acc
    ELSE DecimalValue(Tail(s), 10 * acc + DigitVal(Head(s)))

\* the strings q is, once the blanks at its two ends are taken off
Trimmed(q) ==
    {t \in {Seg(q, a, b) : a \in 0..Len(q), b \in 0..Len(q)} :
        /\ \E a \in 0..(Len(q) - Len(t)) :
              /\ Seg(q, a, a + Len(t)) = t
              /\ IsBlank(Seg(q, 0, a))
              /\ IsBlank(Seg(q, a + Len(t), Len(q)))
        /\ t # << >> => (t[1] \notin Spaces /\ t[Len(t)] \notin Spaces)}

\* t is  lead N O  with blanks allowed around N, and Test holds of N
NumberJoForm(t, lead, Test(_)) ==
    /\ Len(t) >= Len(lead)
    /\ Seg(t, 0, Len(lead)) = lead
    /\ \E a \in Len(lead)..Len(t) :
          /\ IsBlank(Seg(t, Len(lead), a))
          /\ \E b \in (a + 1)..Len(t) :
                /\ IsNumber(Seg(t, a, b))
                /\ \E c \in b..Len(t) :
                      /\ IsBlank(Seg(t, b, c))
                      /\ Seg(t, c, Len(t)) = <<"O">>
                      /\ Test(DecimalValue(Seg(t, a, b), 0))

\* t is  lead N OU M  with blanks allowed around N and M, and Test holds of
\* N and M
NumberJoUiForm(t, lead, Test(_, _)) ==
    /\ Len(t) >= Len(lead)
    /\ Seg(t, 0, Len(lead)) = lead
    /\ \E a \in Len(lead)..Len(t) :
          /\ IsBlank(Seg(t, Len(lead), a))
          /\ \E b \in (a + 1)..Len(t) :
                /\ IsNumber(Seg(t, a, b))
                /\ \E c \in b..Len(t) :
                      /\ IsBlank(Seg(t, b, c))
                      /\ c + 2 <= Len(t)
                      /\ Seg(t, c, c + 2) = <<"O", "U">>
                      /\ \E d \in (c + 2)..(Len(t) - 1) :
                            /\ IsBlank(Seg(t, c + 2, d))
                            /\ IsNumber(Seg(t, d, Len(t)))
                            /\ Test(DecimalValue(Seg(t, a, b), 0),
                                    DecimalValue(Seg(t, d, Len(t)), 0))

\* t has one of the forms N, JNO, JNOUM, NO, NOUM, and Test holds of its
\* numbers; the sub-article number is None in the forms without M
CitationForm(t, Test(_, _)) ==
    \/ IsNumber(t) /\ Test(DecimalValue(t, 0), None)
    \/ \E lead \in {<< >>, <<"J">>} :
          \/ NumberJoForm(t, lead, LAMBDA n : Test(n, None))
          \/ NumberJoUiForm(t, lead, LAMBDA n, m : Test(n, Some(m)))

IsCitation(t) == CitationForm(t, LAMBDA n, m : TRUE)

(***************************************************************************)
(* C5  Classifier totality: normalize_article_query classifies a query as  *)
(* a citation exactly when the trimmed query has one of the five forms N,  *)
(* JNO, JNOUM, NO, NOUM (blanks around the digit groups allowed), with     *)
(* article_no = N and article_sub_no = M, absent when the form has no M;   *)
(* every other string is a keyword query with both numbers absent.         *)
(***************************************************************************)
C5_ClassifierTotality ==
    cq.done =>
        /\ Trimmed(cq.query) # {}
        /\ \A t \in Trimmed(cq.query) :
              /\ cq.out[1].is_article_query <=> IsCitation(t)
              /\ ~CitationForm(t, LAMBDA n, m :
                                    \/ cq.out[1].article_no # Some(n)
                                    \/ cq.out[1].article_sub_no # m)
              /\ ~IsCitation(t) =>
                    /\ cq.out[1].article_no = None
                    /\ cq.out[1].article_sub_no = None

C5_Witness ==
    /\ cq.done
    /\ cq.query = <<" ", "J", "1", "2", "O">>
    /\ cq.out[1].is_article_query
    /\ cq.out[1].article_no = Some(12)
    /\ cq.out[1].article_sub_no = None

(***************************************************************************)
(* C6  Sub-article discrimination: when the query names a sub-article M of *)
(* article N, rescore awards the 900 citation bonus to a hit with          *)
(* articleNo = N and articleSubNo = M and does not award it to a hit with  *)
(* articleNo = N and another articleSubNo.                                 *)
(***************************************************************************)
\* bonus is 900 a + 1000 j + 50 h with a, j, h in {0, 1}
CitationBonusAwarded(bonus) == bonus % 1000 >= 900

C6_SubArticleDiscrimination ==
    rs.done =>
        \A t \in Trimmed(rs.query) :
            ~CitationForm(t, LAMBDA n, m :
                /\ m # None
                /\ rs.normalized[1].articleNo = n
                /\ ~(CitationBonusAwarded(rs.out[1].bonus)
                        <=> rs.normalized[1].articleSubNo = m[1]))

C6_Witness ==
    /\ rs.done
    /\ rs.query = QJe218JoUi2
    /\ rs.normalized[1].articleNo = 218
    /\ rs.normalized[1].articleSubNo = 1
    /\ rs.out[1].raised = None
    /\ ~CitationBonusAwarded(rs.out[1].bonus)
    /\ rs.out[1].value[1] - rs.normalized[1]._rankingScore[1] = rs.out[1].bonus

(***************************************************************************)
(* C7  Citation exactness: for a citation query for article N, a hit with  *)
(* articleNo = N whose joCode contains JNO gets a strictly higher appScore *)
(* than a hit that differs from it in the articleNo only.                  *)
(***************************************************************************)
\* rescoring gives both hits a score, and the first the higher one
ScoresAbove(out, other_out) ==
    /\ out.raised = None
    /\ other_out.raised = None
    /\ out.value[1] > other_out.value[1]

C7_CitationExactness ==
    rs.done =>
        \A t \in Trimmed(rs.query) :
            ~CitationForm(t, LAMBDA n, m :
                /\ m = None
                /\ rs.normalized[1].articleNo = n
                /\ Contains(rs.normalized[1].joCode,
                            <<"J">> \o FormatInt(n) \o <<"O">>)
                /\ \E other \in {218, 219} \ {n} :
                      ~ScoresAbove(rs.out[1],
                            rescore([rs.normalized[1] EXCEPT !.articleNo = other],
                                    rs.query)))

(***************************************************************************)
(* C8  Exact citation matches are privileged: for a citation query, when   *)
(* all base scores lie in [0, 1], no hit that received neither citation    *)
(* bonus is ranked above a hit that received the exact-number bonus in the *)
(* list multi_index_search returns.                                        *)
(***************************************************************************)
Bonus(h) == AppScore(h) - BaseScore(h)

\* neither the 900 nor the 1000: at most the heading's 50
NoCitationBonus(h) == Bonus(h) < CitationBonus

BaseScoresInRange ==
    \A k \in 1..Len(Collected) : Collected[k]._rankingScore \in {Some(0), Some(1)}

CitationSearch ==
    /\ Searched
    /\ result # None
    /\ \E t \in Trimmed(req[1].q) : IsCitation(t)
    /\ BaseScoresInRange

EndToEndScenario ==
    /\ AllAnswered
    /\ req[1].scope = "all"
    /\ req[1].q = Q218
    /\ req[1].limit = 10
    /\ indexes = <<MEILI_INDEX_CIVIL, MEILI_INDEX_CRIMINAL>>
    /\ replies[1].kind = "ok"
    /\ RawHitsOf(replies[1]) =
          <<[articleNo |-> 218, joCode |-> <<"0", "0", "0", "2", "1", "8">>,
             _rankingScore |-> 10]>>
    /\ replies[2].kind = "ok"
    /\ RawHitsOf(replies[2]) = << >>

C9_EndToEnd ==
    EndToEndScenario =>
        /\ result # None
        /\ Len(result[1]) = 1
        /\ result[1][1].lawCode = "CIVIL_CODE"
        /\ result[1][1]._appScore = Some(10 + 900 + 1000)
        /\ response[1].status = 200
        /\ response[1].count = 1
        /\ response[1].hits[1].lawCode = "CIVIL_CODE"

C9_Witness ==
    /\ EndToEndScenario
    /\ "hits" \in DOMAIN replies[2].body
    /\ result # None
    /\ result[1][1]._appScore = Some(1910)

(***************************************************************************)
(* C10  The result is the top-limit prefix of the merge: multi_index_search*)
(* returns the first min(limit, n) entries of the normalized hits of the   *)
(* successful calls (one per raw hit) sorted by descending appScore; no    *)
(* offset is applied to the merged sequence; the reported count is the     *)
(* number of hits returned, not the engine's estimated total.              *)
(***************************************************************************)
C10_TopLimitPrefix ==
    Searched =>
        /\ result # None
        /\ Len(result[1]) = Min(req[1].limit, Len(Collected))
        /\ SubBagOfCollected(result[1], Collected)
        /\ \A i, j \in 1..Len(result[1]) :
              i < j => AppScore(result[1][i]) >= AppScore(result[1][j])
        /\ \A k \in 1..Len(ScoredCollected) :
              Occurrences(ScoredCollected[k], ScoredCollected)
                    > Occurrences(ScoredCollected[k], result[1])
                 => AppScore(ScoredCollected[k])
                       <= AppScore(result[1][Len(result[1])])
        /\ response[1].status = 200
        /\ response[1].count = Len(result[1])
        /\ Len(response[1].hits) = Len(result[1])

(***************************************************************************)
(* C11  A named scope resolves to one index: for every scope of the        *)
(* enumerated set other than "all" (civil, criminal, civil_procedure,      *)
(* criminal_procedure) get_indexes_by_scope returns exactly one index, the *)
(* one of that law, and a search with that scope queries that index.       *)
(***************************************************************************)
\* the handler has been called with a query that is not blank
HandlerRan == Done /\ req # None /\ response[1].status \notin {400, 422}

C11_NamedScopeOneIndex ==
    (HandlerRan /\ req[1].scope # "all") =>
        /\ Len(get_indexes_by_scope(req[1].scope)) = 1
        /\ Len(indexes) = 1
        /\ Len(sent) = 1
        /\ sent[1].index = indexes[1]
        /\ req[1].scope = "civil" => indexes[1] = MEILI_INDEX_CIVIL
        /\ req[1].scope = "criminal" => indexes[1] = MEILI_INDEX_CRIMINAL
        /\ req[1].scope \in {"civil_procedure", "criminal_procedure"} =>
              indexes[1] \notin {MEILI_INDEX_CIVIL, MEILI_INDEX_CRIMINAL}

(***************************************************************************)
(* C12  An unknown scope yields an empty result, not an error: for a scope *)
(* outside the resolver's known set (all, civil, criminal)                 *)
(* get_indexes_by_scope returns the empty list and multi_index_search      *)
(* returns zero hits, issues no index request and does not raise.          *)
(***************************************************************************)
C12_UnknownScopeIsEmpty ==
    (HandlerRan /\ req[1].scope \notin {"all", "civil", "criminal"}) =>
        /\ get_indexes_by_scope(req[1].scope) = << >>
        /\ sent = << >>
        /\ replies = << >>
        /\ result = Some(<< >>)
        /\ response[1].status = 200
        /\ response[1].hits = << >>
        /\ response[1].count = 0

C12_Witness ==
    /\ HandlerRan
    /\ req[1].scope = "civil_procedure"
    /\ req[1].q = Q218
    /\ sent = << >>
    /\ result = Some(<< >>)
    /\ response[1].status = 200

(***************************************************************************)
(* C13 as the specification states it: the per-index calls of a request    *)
(* run concurrently, the call to every index in scope is issued before the *)
(* coordinator waits for any of them.                                      *)
(***************************************************************************)
C13_ConcurrentFanOut ==
    pc = "await" => Len(sent) = Len(indexes)

(***************************************************************************)
(* C13  Fan-out, as the code has it: the per-index calls of a request run  *)
(* one after the other in dispatch order; the call to an index is issued   *)
(* only when the call to the index before it has returned or failed, so    *)
(* at most one call is outstanding.                                        *)
(***************************************************************************)
C13_SequentialFanOut ==
    /\ Len(sent) = Len(replies) + (IF pc = "await" THEN 1 ELSE 0)
    /\ Len(sent) <= Len(indexes)
    /\ \A k \in 1..Len(sent) : sent[k].index = indexes[k]

C13_Witness ==
    /\ pc = "await"
    /\ Len(indexes) = 2
    /\ Len(replies) = 1
    /\ replies[1].kind = "transport"
    /\ Len(sent) = 2
    /\ sent[2].index = MEILI_INDEX_CRIMINAL

(***************************************************************************)
(* C14  No first-responder effect: the merged order multi_index_search     *)
(* returns is the same whatever the order and timing of the answers: a hit *)
(* stands before another because its appScore is higher or, at equal       *)
(* appScore, because its index is not later in the dispatch order; the     *)
(* answers are taken in dispatch order, never in the order of arrival.     *)
(***************************************************************************)
DispatchPos(index_name) == CHOOSE k \in 1..Len(indexes) : indexes[k] = index_name

C14_NoFirstResponder ==
    /\ \A k \in 1..Len(replies) : sent[k].index = indexes[k]
    /\ (Searched /\ result # None) =>
          \A i, j \in 1..Len(result[1]) :
              i < j =>
                 \/ AppScore(result[1][i]) > AppScore(result[1][j])
                 \/ /\ AppScore(result[1][i]) = AppScore(result[1][j])
                    /\ DispatchPos(result[1][i].index)
                          <= DispatchPos(result[1][j].index)

C14_Witness ==
    /\ Searched
    /\ result # None
    /\ Len(result[1]) = 2
    /\ AppScore(result[1][1]) = AppScore(result[1][2])
    /\ result[1][1].index = MEILI_INDEX_CIVIL
    /\ result[1][2].index = MEILI_INDEX_CRIMINAL
    /\ replies[1].kind = "ok"
    /\ replies[2].kind = "ok"

(***************************************************************************)
(* C15  lawCode is never empty after normalization: normalize_hit keeps    *)
(* the raw hit's lawCode when it is present and not empty, otherwise uses  *)
(* the law code of the source index (civil index: CIVIL_CODE, criminal     *)
(* index: CRIMINAL_CODE), and otherwise sets "UNKNOWN".                    *)
(***************************************************************************)
HasLawCode(hit) == "lawCode" \in DOMAIN hit /\ hit["lawCode"] # ""

C15_LawCodeNeverEmpty ==
    rs.done =>
        /\ rs.normalized[1].lawCode # ""
        /\ HasLawCode(rs.hit) => rs.normalized[1].lawCode = rs.hit["lawCode"]
        /\ (~HasLawCode(rs.hit) /\ rs.index = MEILI_INDEX_CIVIL)
              => rs.normalized[1].lawCode = "CIVIL_CODE"
        /\ (~HasLawCode(rs.hit) /\ rs.index = MEILI_INDEX_CRIMINAL)
              => rs.normalized[1].lawCode = "CRIMINAL_CODE"
        /\ (~HasLawCode(rs.hit)
            /\ rs.index \notin {MEILI_INDEX_CIVIL, MEILI_INDEX_CRIMINAL})
              => rs.normalized[1].lawCode = "UNKNOWN"

C15_Witness ==
    /\ rs.done
    /\ "lawCode" \in DOMAIN rs.hit
    /\ rs.hit["lawCode"] = ""
    /\ rs.index = "other-articles"
    /\ rs.normalized[1].lawCode = "UNKNOWN"

(***************************************************************************)
(* C16  Only validation errors escape: every way a per-index call can fail *)
(* (a status other than 200, a transport failure or timeout, a 200 answer  *)
(* whose body cannot be decoded) is absorbed as zero hits from that index; *)
(* none aborts the search or reaches the caller as an error.               *)
(***************************************************************************)
CallWentWrong(reply) == reply.kind \in {"status", "transport", "garbled"}

C16_OnlyValidationErrorsEscape ==
    (Done /\ \E k \in 1..Len(replies) : CallWentWrong(replies[k])) =>
        /\ Len(replies) = Len(indexes)
        /\ response[1].status = 200
        /\ result # None
        /\ Len(result[1]) = Min(req[1].limit, Len(Collected))

(***************************************************************************)
(* C17  Validation precedes the fan-out: a request whose query is empty    *)
(* after trimming, whose limit is outside 1..50, whose offset is negative  *)
(* or whose scope is outside the enum is rejected with a client error      *)
(* before multi_index_search runs; no index request is issued for it.      *)
(***************************************************************************)
Malformed(r) ==
    \/ r.q = << >>
    \/ r.limit < 1
    \/ r.limit > 50
    \/ r.offset < 0
    \/ r.scope \notin {"all", "civil", "criminal", "civil_procedure",
                       "criminal_procedure"}

C17_ValidationFirst ==
    (req # None /\ Malformed(req[1])) =>
        /\ Done
        /\ response[1].status \in 400..499
        /\ sent = << >>
        /\ replies = << >>
        /\ result = None

C17_Witness ==
    /\ Done
    /\ req[1].limit = 51
    /\ req[1].q = Q218
    /\ req[1].scope = "all"
    /\ req[1].offset = 0
    /\ response[1].status = 422
    /\ sent = << >>

(***************************************************************************)
(* C18  Dispatch shape: each index in the resolved scope receives exactly  *)
(* one search request of a search, asking for 2 x limit hits at the        *)
(* caller's offset; a failed call is never retried, so the number of       *)
(* requests equals the number of indexes in scope.                         *)
(***************************************************************************)
C18_DispatchShape ==
    HandlerRan =>
        /\ Len(sent) = Len(get_indexes_by_scope(req[1].scope))
        /\ \A k \in 1..Len(sent) :
              /\ sent[k].index = get_indexes_by_scope(req[1].scope)[k]
              /\ sent[k].json.limit = 2 * req[1].limit
              /\ sent[k].json.offset = req[1].offset
              /\ sent[k].json.q = req[1].q

(***************************************************************************)
(* C19  Sub-article wildcard: when the citation query names no sub-article *)
(* (forms N, JNO, NO), rescore awards the 900 citation bonus to every hit  *)
(* whose articleNo is N, whatever its articleSubNo, and to no other hit.   *)
(***************************************************************************)
C19_SubArticleWildcard ==
    rs.done =>
        \A t \in Trimmed(rs.query) :
            ~CitationForm(t, LAMBDA n, m :
                /\ m = None
                /\ ~(CitationBonusAwarded(rs.out[1].bonus)
                        <=> rs.normalized[1].articleNo = n))

C19_Witness ==
    /\ rs.done
    /\ rs.query = QJe218Jo
    /\ rs.normalized[1].articleNo = 218
    /\ rs.normalized[1].articleSubNo = 2
    /\ rs.out[1].raised = None
    /\ CitationBonusAwarded(rs.out[1].bonus)
    /\ rs.out[1].value[1] - rs.normalized[1]._rankingScore[1] >= 900

(***************************************************************************)
(* C20  The joCode bonus is independent and additive: for a citation query *)
(* rescore adds 1000 exactly when the hit's joCode contains JNO (JNOUM     *)
(* when the query names M) or, for a query without sub-article, is N       *)
(* zero-padded to 6 digits, whatever the comparison of the numbers gives;  *)
(* a hit that meets both conditions receives 900 + 1000, a hit that meets  *)
(* one receives that bonus only.                                           *)
(***************************************************************************)
\* s writes n in decimal without leading zeros
IsDecimalOf(s, n) ==
    /\ IsNumber(s)
    /\ DecimalValue(s, 0) = n
    /\ Len(s) = 1 \/ s[1] # "0"

\* s is n written with at least 6 digits, zeros in front
IsSixDigitsOf(s, n) ==
    /\ IsNumber(s)
    /\ DecimalValue(s, 0) = n
    /\ Len(s) = 6 \/ (Len(s) > 6 /\ s[1] # "0")

\* jo has J, the number n and then tail somewhere in it
ContainsCitation(jo, n, tail) ==
    \E a \in 1..Len(jo) : \E b \in (a + 1)..Len(jo) :
        /\ jo[a] = "J"
        /\ IsDecimalOf(Seg(jo, a, b), n)
        /\ b + Len(tail) <= Len(jo)
        /\ Seg(jo, b, b + Len(tail)) = tail

JoCodeConfirms(jo, n, m) ==
    IF m = None
    THEN ContainsCitation(jo, n, <<"O">>) \/ IsSixDigitsOf(jo, n)
    ELSE \E digits \in {Seg(jo, a, b) : a \in 0..Len(jo), b \in 0..Len(jo)} :
            /\ IsDecimalOf(digits, m[1])
            /\ ContainsCitation(jo, n, <<"O", "U">> \o digits)

NumbersAgree(hit, n, m) ==
    /\ hit.articleNo = n
    /\ m = None \/ hit.articleSubNo = m[1]

\* the bonus without the 50 of the heading
CitationPart(bonus) == bonus - (bonus % 100)

C20_JoCodeBonusAdditive ==
    rs.done =>
        \A t \in Trimmed(rs.query) :
            ~CitationForm(t, LAMBDA n, m :
                CitationPart(rs.out[1].bonus) #
                    (IF NumbersAgree(rs.normalized[1], n, m) THEN 900 ELSE 0)
                    + (IF JoCodeConfirms(rs.normalized[1].joCode, n, m)
                       THEN 1000 ELSE 0))

C20_Witness ==
    /\ rs.done
    /\ rs.query = QJe218JoUi2
    /\ rs.normalized[1].articleNo = 218
    /\ rs.normalized[1].articleSubNo = 2
    /\ rs.normalized[1].joCode = <<"J", "2", "1", "8", "O", "U", "2">>
    /\ rs.out[1].raised = None
    /\ CitationPart(rs.out[1].bonus) = 900 + 1000

(***************************************************************************)
(* C21  Heading bonus: rescore adds exactly 50 if and only if the query,   *)
(* lower-cased, is a substring of the hit's lower-cased heading, for       *)
(* citation queries and keyword queries alike and whichever citation       *)
(* bonus was awarded.                                                      *)
(***************************************************************************)
\* the same character, the case of a letter set aside
SameLetter(c, d) ==
    \/ c = d
    \/ {c, d} = {"A", "a"}
    \/ {c, d} = {"B", "b"}

\* needle stands somewhere in hay, the case of the letters set aside
OccursIgnoringCase(needle, hay) ==
    \E a \in 0..(Len(hay) - Len(needle)) :
        \A k \in 1..Len(needle) : SameLetter(needle[k], hay[a + k])

\* the part of the bonus that is not a citation bonus
HeadingPart(bonus) == bonus % 100

C21_HeadingBonus ==
    rs.done =>
        /\ HeadingPart(rs.out[1].bonus) \in {0, 50}
        /\ HeadingPart(rs.out[1].bonus) = 50
              <=> OccursIgnoringCase(rs.query, rs.normalized[1].heading)

C21_Witness ==
    /\ rs.done
    /\ rs.query = Q218
    /\ rs.normalized[1].heading = <<"J", "2", "1", "8", "O", "(", "A", "b", ")">>
    /\ rs.normalized[1].articleNo = 218
    /\ rs.out[1].raised = None
    /\ rs.out[1].bonus = 900 + 50
    /\ rs.out[1].value[1] = rs.normalized[1]._rankingScore[1] + 950

(***************************************************************************)
(* C22  The strict flag reaches the engine: the strict flag given to the   *)
(* search endpoint is passed unchanged to every per-index request of the   *)
(* search; the request carries matchingStrategy "all" if and only if       *)
(* strict is true, and the flag changes nothing else in the request.       *)
(***************************************************************************)
\* the request to an index but for its matching strategy
WithoutStrategy(json) ==
    [k \in DOMAIN json \ {"matchingStrategy"} |-> json[k]]

C22_StrictReachesEngine ==
    \A k \in 1..Len(sent) :
        /\ "matchingStrategy" \in DOMAIN sent[k].json <=> req[1].asked_strict
        /\ "matchingStrategy" \in DOMAIN sent[k].json
              => sent[k].json.matchingStrategy = "all"
        /\ WithoutStrategy(sent[k].json) =
              WithoutStrategy(search_payload(sent[k].index, req[1].q,
                                req[1].limit * 2, req[1].offset, FALSE,
                                filter_expr(req[1].scope)).json)

(***************************************************************************)
(* C23  Normalization only defaults: for every raw hit normalize_hit       *)
(* returns a hit whose articleNo and articleSubNo are the raw values, or 0 *)
(* when missing, whose joCode, heading and body are the raw values, or the *)
(* empty string when missing, and whose appScore is unset.                 *)
(***************************************************************************)
\* the value of the raw hit's field, or the default when the hit has none
RawOr(hit, field, default) ==
    IF field \in DOMAIN hit THEN hit[field] ELSE default

SharedEnv ==
    ("MEILI_INDEX_CIVIL" :> "law-articles")
        @@ ("MEILI_INDEX_CRIMINAL" :> "law-articles")

RenamedEnv == ("MEILI_INDEX_CIVIL" :> "civil-v2")

EnvConfigs == {NoEnv, RenamedEnv, SharedEnv}

\* the articles table, as the engine returns its documents
Documents == {HitJo219, HitJo218Ui2}

\* reindex_with_ngram.py INDEXES: the index each law is written to
INDEXES ==
    ("CIVIL_CODE" :> MEILI_INDEX_CIVIL)
        @@ ("CRIMINAL_CODE" :> MEILI_INDEX_CRIMINAL)

\* reindex_with_ngram.py main: the documents of an index
IndexDocuments(index_name) ==
    {d \in Documents : INDEXES[d.lawCode] = index_name}

\* the engine applies the filter of the payload to the documents
PassesFilter(d, json) ==
    \/ "filter" \notin DOMAIN json
    \/ json.filter = "lawCode = " \o d.lawCode

\* what the engine can answer to a post: a failure, or documents of the
\* index that pass the filter, each at most once
EngineAnswers(post) ==
    LET docs == {d \in IndexDocuments(post.index) : PassesFilter(d, post.json)}
    IN  {[kind |-> "status"], [kind |-> "transport"]}
        \cup {[kind |-> "ok",
               body |-> [hits |-> hs, estimatedTotalHits |-> Len(hs)]] :
                hs \in {h \in UNION {[1..n -> docs] : n \in 0..MaxHitsPerIndex} :
                           \A i, j \in DOMAIN h : i # j => h[i] # h[j]}}

InitShared ==
    /\ pc = "idle"
    /\ req = None
    /\ indexes = << >>
    /\ idx_i = 0
    /\ all_hits = << >>
    /\ sent = << >>
    /\ replies = << >>
    /\ result = None
    /\ response = None
    /\ cq = CqIdle
    /\ rs = RsIdle
    /\ env \in EnvConfigs
    /\ AccountsIdle

\* the engine answers the post the loop is waiting for
ReplyOfIndex ==
    /\ pc = "await"
    /\ \E reply \in EngineAnswers(sent[idx_i]) : Reply(reply)

NextShared ==
    \/ \E q \in {Q218, QKeyword}, scope \in {"all", "civil", "criminal"},
          limit \in Limits :
          Search(q, scope, limit, 0, FALSE)
    \/ ReplyOfIndex

SpecShared == InitShared /\ [][NextShared]_vars

NoRepeats(s) == \A i, j \in DOMAIN s : i # j => s[i] # s[j]

\* the raw hit a returned hit was made of: normalize_hit and rescore add
\* the keys index and _appScore
RawOf(hit) == [k \in DOMAIN hit \ {"index", "_appScore"} |-> hit[k]]

\* C24: when a search of scope "all" has returned, the resolved list names
\* no index twice, no index was posted to twice, and no raw hit is twice in
\* the merged result, in every deployment, one with a shared index included
C24_ResolvedScopeNoDuplicates ==
    (pc = "done" /\ result # None /\ req[1].scope = "all") =>
        /\ NoRepeats(indexes)
        /\ NoRepeats([k \in DOMAIN sent |-> sent[k].index])
        /\ NoRepeats([k \in DOMAIN result[1] |-> RawOf(result[1][k])])

(***************************************************************************)
(* C25  Fields searched.  As claimed: the request to an index carries      *)
(* attributesToSearchOn exactly when the query is a citation.  As the code *)
(* has it: the request is built from the query text, the page, the flag    *)
(* and the filter alone; a citation and a keyword query are posted with    *)
(* the same keys, attributesToSearchOn never among them, and the query is  *)
(* posted as typed.                                                        *)
(***************************************************************************)
QueryIsCitation == \E t \in Trimmed(req[1].q) : IsCitation(t)

C25_CitationNarrowsFields ==
    \A k \in 1..Len(sent) :
        "attributesToSearchOn" \in DOMAIN sent[k].json <=> QueryIsCitation

PayloadKeys == {"q", "limit", "offset", "showRankingScore", "filter"}

C25_SameRequestForEveryQuery ==
    \A k \in 1..Len(sent) :
        /\ "attributesToSearchOn" \notin DOMAIN sent[k].json
        /\ DOMAIN sent[k].json \ {"filter"} = PayloadKeys \ {"filter"}
        /\ DOMAIN sent[k].json \subseteq PayloadKeys
        /\ sent[k].json.q = req[1].q

C25_Witness ==
    /\ pc = "await"
    /\ QueryIsCitation
    /\ Len(sent) = 2
    /\ sent[2].index = MEILI_INDEX_CRIMINAL

(***************************************************************************)
(* C26  One pass: a search request goes from dispatching through           *)
(* collecting to merging once.  Every step of the handler takes in the     *)
(* answer of one call, no call is posted again, and the step that takes in *)
(* the last answer ends the request with a result (partial or empty when   *)
(* calls failed) and status 200, whatever the calls answered.              *)
(***************************************************************************)
C26_OnePassToResult ==
    [][/\ pc = "idle" => pc' \in {"await", "done"}
       /\ pc = "await" =>
            /\ pc' \in {"await", "done"}
            /\ Len(replies') = Len(replies) + 1
            /\ Len(sent') <= Len(indexes')
            /\ \A k \in 1..Len(sent) : sent'[k] = sent[k]
       /\ (pc = "await" /\ pc' = "done") =>
            /\ Len(replies') = Len(indexes')
            /\ result' # None
            /\ response'[1].status = 200]_vars

(***************************************************************************)
(* rescore on hits whose joCode is written the way the repository writes   *)
(* it: app.py pad_jo_code_from_article, which bookmarks.py                 *)
(* normalize_article_no reads back (joCode[:4]) and the SearchHit example  *)
(* shows (articleNo 1, articleSubNo 0, joCode "000100").                   *)
(***************************************************************************)
ArticleWidth == 4
SubArticleWidth == 2

\* app.py, lines 32-33: f"{int(article_no):04d}{int(sub_no):02d}"
pad_jo_code_from_article(article_no, sub_no) ==
    ZeroPad(article_no, ArticleWidth) \o ZeroPad(sub_no, SubArticleWidth)

Q2 == <<"2">>
QJe2JoUi18 == <<"J", "2", "O", "U", "1", "8">>

CodedHits ==
    {[lawCode |-> "CIVIL_CODE", articleNo |-> n, articleSubNo |-> m,
      joCode |-> pad_jo_code_from_article(n, m),
      heading |-> <<"J">> \o FormatInt(n) \o <<"O">>,
      _rankingScore |-> 1] : n \in {2, 21, 218, 219}, m \in {0, 2, 18}}

CodedQueries == {Q2, Q218, Q219, QJe218Jo, QJe218JoUi2, QJe2JoUi18, QKeyword}

InitCoded ==
    /\ env = NoEnv
    /\ pc = "idle"
    /\ req = None
    /\ indexes = << >>
    /\ idx_i = 0
    /\ all_hits = << >>
    /\ sent = << >>
    /\ replies = << >>
    /\ result = None
    /\ response = None
    /\ cq = CqIdle
    /\ rs \in {[hit |-> h, index |-> MEILI_INDEX_CIVIL, query |-> q,
                done |-> FALSE, normalized |-> None, out |-> None] :
                  h \in CodedHits, q \in CodedQueries}
    /\ AccountsIdle

NextCoded == Rescore

SpecCoded == InitCoded /\ [][NextCoded]_vars

\* the 1000 of the joCode is in the bonus
JoCodeBonusAwarded(bonus) == bonus >= 1000

\* C27: for a citation query and a hit whose joCode is the repository's
\* code of its article, rescore adds the 1000 of the citation code exactly
\* when the hit is the article the query cites (any sub-article when the
\* query names none)
C27_JoCodeBonusMatchesCitedArticle ==
    rs.done =>
        \A t \in Trimmed(rs.query) :
            ~CitationForm(t, LAMBDA n, m :
                ~(JoCodeBonusAwarded(rs.out[1].bonus)
                    <=> NumbersAgree(rs.normalized[1], n, m)))

(***************************************************************************)
(* The account endpoints: routers/auth.py auth_callback, deps/auth.py      *)
(* get_current_user, routers/bookmarks.py.  The tables are in the          *)
(* database, which several workers of the application share, so the        *)
(* statements of two requests interleave: a handler moves at each          *)
(* statement it sends (its SELECT, then the flush and COMMIT of            *)
(* db.commit()).  users and bookmarks hold the committed rows; the         *)
(* database checks a unique constraint when the INSERT is flushed.         *)
(* calls[c] is the request with call number c:                             *)
(*   request      what the caller sent                                     *)
(*   who          the id of the authenticated user, 0 when there is none   *)
(*   pc "commit"  the handler has read and is about to call db.commit()    *)
(*   pc "done"    the handler has returned response                        *)
(***************************************************************************)
MaxCalls == 3

\* str.upper() and str.lower() of a law code or law type, which the model
\* keeps as atomic strings: the spellings with a lower-case or upper-case
\* letter that the request bodies use
str_upper(s) ==
    CASE s = "civil_code" -> "CIVIL_CODE"
      [] s = "Civil" -> "CIVIL"
      [] s = "tax" -> "TAX"
      [] OTHER -> s

str_lower(s) ==
    CASE s = "Civil" -> "civil"
      [] s = "CIVIL_CODE" -> "civil_code"
      [] OTHER -> s

\* normalize_law_code, lines 28-33
law_type_map ==
    ("civil" :> "CIVIL_CODE")
    @@ ("criminal" :> "CRIMINAL_CODE")
    @@ ("civil_procedure" :> "CIVIL_PROCEDURE_CODE")
    @@ ("criminal_procedure" :> "CRIMINAL_PROCEDURE_CODE")

Returned(v) == [raised |-> None, value |-> v]
Raised(e) == [raised |-> Some(e), value |-> None]

\* a field of the request body that is absent, null or "" is falsy
normalize_law_code(data) ==
    IF Get(data, "lawCode", "") # ""
    THEN Returned(str_upper(data.lawCode))
    ELSE IF /\ Get(data, "lawType", "") # ""
            /\ str_lower(data.lawType) \in DOMAIN law_type_map
    THEN Returned(law_type_map[str_lower(data.lawType)])
    ELSE Raised("ValueError")

JoCodeArticleDigits == 4

\* re.search(r'J(\d+)O', heading): the leftmost position where the pattern
\* matches, 0 when there is none
heading_match(heading) ==
    LET starts == {a \in 1..Len(heading) :
                      Lit(heading, DigitsPlus(heading, Lit(heading, a, "J")), "O") # 0}
    IN  IF starts = {} THEN 0 ELSE CHOOSE a \in starts : \A b \in starts : a <= b

\* lines 46-63.  int() of up to four characters: the bodies of the model
\* carry digits or letters there, no sign and no blank
normalize_article_no(data) ==
    LET joCode == Get(data, "joCode", << >>)
        first4 == SubSeq(joCode, 1, Min(JoCodeArticleDigits, Len(joCode)))
        heading == Get(data, "heading", << >>)
        m == heading_match(heading)
    IN  IF Get(data, "articleNo", << >>) # << >>
        THEN Returned(Strip(data.articleNo))
        ELSE IF joCode # << >> /\ \A k \in DOMAIN first4 : first4[k] \in Digits
        THEN Returned(FormatInt(ParseInt(first4)))
        ELSE IF heading # << >> /\ m # 0
        THEN Returned(SubSeq(heading, m + 1, DigitsPlus(heading, m + 1) - 1))
        ELSE Raised("ValueError")

\* utils/jwt.py: a token is the payload under the signature of the service
create_access_token(data) == [signed |-> TRUE, payload |-> data]

\* jwt.decode raises PyJWTError for a token the service did not sign or
\* that has expired
verify_token(token) == IF token.signed THEN Some(token.payload) ELSE None

\* deps/auth.py get_current_user: the user row, or HTTPException 401
get_current_user(token) ==
    IF token = None THEN Raised(401)
    ELSE IF verify_token(token) = None THEN Raised(401)
    ELSE IF "sub" \notin DOMAIN verify_token(token)[1] THEN Raised(401)
    ELSE LET found == {u \in users : u.id = verify_token(token)[1].sub}
         IN  IF found = {} THEN Raised(401)
             ELSE Returned(CHOOSE u \in found : TRUE)

\* faulty variant: table bookmarks without uq_user_bookmark
uq_user_bookmark_dropped(rows, new) == FALSE

\* models/db.py, line 60: the INSERT of new violates uq_user_bookmark
uq_user_bookmark(rows, new) ==
    \E b \in rows : /\ b.user_id = new.user_id
                    /\ b.law_code = new.law_code
                    /\ b.article_no = new.article_no

\* faulty variant: table users without uq_provider_user
uq_provider_user_dropped(rows, new) == FALSE

\* models/db.py, line 35: the INSERT of new violates uq_provider_user
uq_provider_user(rows, new) ==
    \E u \in rows : /\ u.provider = new.provider
                    /\ u.provider_id = new.provider_id

BookmarkOut(b) ==
    [id |-> b.id, lawCode |-> b.law_code, articleNo |-> b.article_no,
     memo |-> b.memo, createdAt |-> b.created_at]

\* a request is received: it gets the next call number
Received == Len(calls) < MaxCalls

Answer(op, who, request, answer) ==
    [op |-> op, pc |-> "done", who |-> who, request |-> request,
     response |-> answer]

(***************************************************************************)
(* routers/bookmarks.py                                                    *)
(***************************************************************************)
\* create_bookmark, lines 103-141: authentication, normalization and the
\* new row, which takes its created_at when it is constructed
create_bookmark_begin(token, bookmark_data) ==
    LET current_user == get_current_user(token)
        law_code == normalize_law_code(bookmark_data)
        article_no == normalize_article_no(bookmark_data)
        request == [token |-> token, body |-> bookmark_data]
    IN
    /\ Received
    /\ IF current_user.raised # None
       THEN /\ calls' = Append(calls, Answer("create_bookmark", 0, request,
                                          [status |-> 401]))
            /\ UNCHANGED seq
       ELSE IF law_code.raised # None \/ article_no.raised # None
       THEN /\ calls' = Append(calls, Answer("create_bookmark", current_user.value.id,
                               request, [status |-> 400, error |-> "VALIDATION_ERROR"]))
            /\ UNCHANGED seq
       ELSE /\ calls' = Append(calls,
                 [op |-> "create_bookmark", pc |-> "commit",
                  who |-> current_user.value.id, request |-> request,
                  new_bookmark |-> [user_id |-> current_user.value.id,
                                    law_code |-> law_code.value,
                                    article_no |-> article_no.value,
                                    memo |-> GetOpt(bookmark_data, "memo"),
                                    created_at |-> seq.clock + 1]])
            /\ seq' = [seq EXCEPT !.clock = @ + 1]
    /\ UNCHANGED <<users, bookmarks>>

\* create_bookmark, lines 143-161: db.commit() flushes the INSERT, which
\* takes the next id of the sequence and fails on the unique constraint
create_bookmark_commit(c) ==
    LET new_bookmark == calls[c].new_bookmark
        stored == [id |-> seq.bookmarks + 1] @@ new_bookmark
    IN
    /\ calls[c].op = "create_bookmark"
    /\ calls[c].pc = "commit"
    /\ seq' = [seq EXCEPT !.bookmarks = @ + 1]
    /\ IF uq_user_bookmark(bookmarks, new_bookmark)
       THEN /\ UNCHANGED bookmarks
            /\ calls' = [calls EXCEPT ![c] = Answer("create_bookmark", calls[c].who,
                            calls[c].request, [status |-> 409, error |-> "DUPLICATE_BOOKMARK"])]
       ELSE /\ bookmarks' = bookmarks \cup {stored}
            /\ calls' = [calls EXCEPT ![c] = Answer("create_bookmark", calls[c].who,
                            calls[c].request, [status |-> 201, body |-> BookmarkOut(stored)])]
    /\ UNCHANGED users

\* faulty variant: the bookmark is looked up by its id alone
find_bookmark_any_owner(bookmark_id, current_user) ==
    {b \in bookmarks : b.id = bookmark_id}

\* delete_bookmark, lines 185-188: the rows the query matches
find_bookmark(bookmark_id, current_user) ==
    {b \in bookmarks : b.id = bookmark_id /\ b.user_id = current_user.id}

\* delete_bookmark, lines 164-194
delete_bookmark_begin(token, bookmark_id) ==
    LET current_user == get_current_user(token)
        request == [token |-> token, bookmark_id |-> bookmark_id]
    IN
    /\ Received
    /\ IF current_user.raised # None
       THEN calls' = Append(calls, Answer("delete_bookmark", 0, request,
                                          [status |-> 401]))
       ELSE IF find_bookmark(bookmark_id, current_user.value) = {}
       THEN calls' = Append(calls, Answer("delete_bookmark", current_user.value.id,
                               request, [status |-> 404, error |-> "NOT_FOUND"]))
       ELSE calls' = Append(calls,
                 [op |-> "delete_bookmark", pc |-> "commit",
                  who |-> current_user.value.id, request |-> request,
                  bookmark |-> CHOOSE b \in find_bookmark(bookmark_id,
                                                         current_user.value) : TRUE])
    /\ UNCHANGED <<users, bookmarks, seq>>

\* delete_bookmark, lines 196-201: DELETE of the row by its primary key; a
\* row another request has deleted meanwhile matches nothing
delete_bookmark_commit(c) ==
    /\ calls[c].op = "delete_bookmark"
    /\ calls[c].pc = "commit"
    /\ bookmarks' = {b \in bookmarks : b.id # calls[c].bookmark.id}
    /\ calls' = [calls EXCEPT ![c] = Answer("delete_bookmark", calls[c].who,
                                            calls[c].request, [status |-> 204])]
    /\ UNCHANGED <<users, seq>>

\* ORDER BY created_at DESC
RECURSIVE newest_first(_)
newest_first(rows) ==
    IF rows = {} THEN << >>
    ELSE LET b == CHOOSE x \in rows : \A y \in rows : y.created_at <= x.created_at
         IN  <<b>> \o newest_first(rows \ {b})

\* get_bookmarks, lines 66-100
get_bookmarks(token, limit, offset) ==
    LET current_user == get_current_user(token)
        mine == {b \in bookmarks : b.user_id = current_user.value.id}
        page == SubSeq(newest_first(mine), offset + 1,
                       Min(offset + limit, Cardinality(mine)))
        request == [token |-> token, limit |-> limit, offset |-> offset]
    IN
    /\ Received
    /\ IF current_user.raised # None
       THEN calls' = Append(calls, Answer("get_bookmarks", 0, request,
                                          [status |-> 401]))
       ELSE calls' = Append(calls, Answer("get_bookmarks", current_user.value.id,
                        request, [status |-> 200,
                         body |-> [k \in 1..Len(page) |-> BookmarkOut(page[k])]]))
    /\ UNCHANGED <<users, bookmarks, seq>>

(***************************************************************************)
(* routers/auth.py auth_callback                                           *)
(***************************************************************************)
Redirect(url, cookie) == [status |-> 307, url |-> url, access_token |-> cookie]

\* lines 47-124: the provider's answer is taken in and the user is looked
\* up.  user_info is what the provider tells: email, name, provider_id.
auth_callback_begin(provider, user_info) ==
    LET email == Get(user_info, "email", "")
        provider_id == Get(user_info, "provider_id", "")
        found == {u \in users : u.provider = provider /\ u.provider_id = provider_id}
        request == [provider |-> provider, user_info |-> user_info]
    IN
    /\ Received
    /\ IF provider \notin {"google", "naver"}
       THEN calls' = Append(calls, Answer("auth_callback", 0, request,
                                          [status |-> 400]))
       ELSE IF email = "" \/ provider_id = ""
       THEN calls' = Append(calls, Answer("auth_callback", 0, request,
                                          Redirect("/auth/error", None)))
       ELSE calls' = Append(calls,
                 [op |-> "auth_callback", pc |-> "commit", who |-> 0,
                  request |-> request,
                  provider |-> provider, provider_id |-> provider_id,
                  email |-> email, name |-> Get(user_info, "name", ""),
                  user |-> IF found = {} THEN None
                           ELSE Some((CHOOSE u \in found : TRUE).id)])
    /\ UNCHANGED <<users, bookmarks, seq>>

\* lines 126-166: db.commit() flushes the UPDATE of the row that was found,
\* or the INSERT of a new one; an IntegrityError of the INSERT is caught by
\* except Exception, which redirects to the error page
auth_callback_commit(c) ==
    LET call == calls[c]
        new_user == [id |-> seq.users + 1, provider |-> call.provider,
                     provider_id |-> call.provider_id, email |-> call.email,
                     name |-> call.name]
        done(user_id, answer) ==
            Answer("auth_callback", user_id, call.request, answer)
    IN
    /\ call.op = "auth_callback"
    /\ call.pc = "commit"
    /\ IF call.user # None
       THEN /\ users' = {IF u.id = call.user[1]
                         THEN [u EXCEPT !.email = call.email, !.name = call.name]
                         ELSE u : u \in users}
            /\ UNCHANGED seq
            /\ calls' = [calls EXCEPT ![c] =
                  done(call.user[1],
                       Redirect("/", Some(create_access_token([sub |-> call.user[1]]))))]
       ELSE /\ seq' = [seq EXCEPT !.users = @ + 1]
            /\ IF uq_provider_user(users, new_user)
               THEN /\ UNCHANGED users
                    /\ calls' = [calls EXCEPT ![c] =
                          done(0, Redirect("/auth/error", None))]
               ELSE /\ users' = users \cup {new_user}
                    /\ calls' = [calls EXCEPT ![c] =
                          done(new_user.id,
                               Redirect("/", Some(create_access_token(
                                                     [sub |-> new_user.id]))))]
    /\ UNCHANGED bookmarks

\* the variables of the search handler and the harnesses
search_vars == <<pc, req, indexes, idx_i, all_hits, sent, replies, result,
                 response, cq, rs, env>>

SearchIdle ==
    /\ env = NoEnv
    /\ pc = "idle"
    /\ req = None
    /\ indexes = << >>
    /\ idx_i = 0
    /\ all_hits = << >>
    /\ sent = << >>
    /\ replies = << >>
    /\ result = None
    /\ response = None
    /\ cq = CqIdle
    /\ rs = RsIdle

(***************************************************************************)
(* Logins: callbacks of the two providers, in any interleaving.            *)
(***************************************************************************)
Providers == {"google", "naver", "kakao"}

UserInfos ==
    {[email |-> "a@x", name |-> "A", provider_id |-> "p1"],
     [email |-> "b@x", name |-> "B", provider_id |-> "p1"],
     [name |-> "A", provider_id |-> "p1"]}

InitLogin == SearchIdle /\ AccountsIdle

NextLogin ==
    \/ \E provider \in Providers, user_info \in UserInfos :
          auth_callback_begin(provider, user_info) /\ UNCHANGED search_vars
    \/ \E c \in DOMAIN calls : auth_callback_commit(c) /\ UNCHANGED search_vars

SpecLogin == InitLogin /\ [][NextLogin]_vars

(***************************************************************************)
(* Bookmarks of two users who have logged in.                              *)
(***************************************************************************)
LoggedIn ==
    {[id |-> 1, provider |-> "google", provider_id |-> "p1",
      email |-> "a@x", name |-> "A"],
     [id |-> 2, provider |-> "naver", provider_id |-> "p1",
      email |-> "b@x", name |-> "B"]}

\* the cookies of the requests: the tokens the callbacks issued to the two
\* users and, for the requests that name or list bookmarks, a token for
\* user 1 that the service did not sign
UserTokens == {create_access_token([sub |-> u.id]) : u \in LoggedIn}

Tokens == {[signed |-> FALSE, payload |-> [sub |-> 1]]} \cup UserTokens

BookmarkBodies ==
    {[lawCode |-> "civil_code", articleNo |-> <<" ", "7", "6", "0">>],
     [lawType |-> "Civil", joCode |-> <<"0", "7", "6", "0", "0", "0">>, memo |-> "m"],
     [lawCode |-> "CIVIL_CODE", heading |-> <<"(", "J", "1", "O", "U", "2", ")">>],
     [lawType |-> "tax", articleNo |-> <<"1">>]}

BookmarkIds == 1..2

\* the first page at the default page size
Pages == {[limit |-> 100, offset |-> 0]}

InitBookmarks ==
    /\ SearchIdle
    /\ users = LoggedIn
    /\ bookmarks = {}
    /\ seq = [users |-> 2, bookmarks |-> 0, clock |-> 0]
    /\ calls = << >>

NextBookmarks ==
    \/ \E token \in UserTokens, bookmark_data \in BookmarkBodies :
          create_bookmark_begin(token, bookmark_data) /\ UNCHANGED search_vars
    \/ \E c \in DOMAIN calls : create_bookmark_commit(c) /\ UNCHANGED search_vars
    \/ \E token \in Tokens, bookmark_id \in BookmarkIds :
          delete_bookmark_begin(token, bookmark_id) /\ UNCHANGED search_vars
    \/ \E c \in DOMAIN calls : delete_bookmark_commit(c) /\ UNCHANGED search_vars
    \/ \E token \in Tokens, page \in Pages :
          get_bookmarks(token, page.limit, page.offset) /\ UNCHANGED search_vars

SpecBookmarks == InitBookmarks /\ [][NextBookmarks]_vars

(***************************************************************************)
(* C28  Bookmark uniqueness: in every interleaving of create_bookmark and  *)
(* delete_bookmark requests no two stored bookmarks have the same user,    *)
(* law code and article number; a create whose normalized key is stored    *)
(* for that user when its INSERT is flushed answers 409 DUPLICATE_BOOKMARK *)
(* and leaves the stored bookmarks as they are, and any other create that  *)
(* passed validation stores exactly its row and answers 201.               *)
(***************************************************************************)
SameKey(a, b) ==
    /\ a.user_id = b.user_id
    /\ a.law_code = b.law_code
    /\ a.article_no = b.article_no

UniqueBookmarks ==
    \A a, b \in bookmarks : (SameKey(a, b) \/ a.id = b.id) => a = b

\* the step in which call c leaves db.commit()
Commits(c, op) ==
    /\ calls[c].op = op
    /\ calls[c].pc = "commit"
    /\ calls'[c].pc = "done"

DuplicateAnswers409 ==
    \A c \in DOMAIN calls :
        Commits(c, "create_bookmark") =>
            IF \E b \in bookmarks : SameKey(b, calls[c].new_bookmark)
            THEN /\ calls'[c].response.status = 409
                 /\ calls'[c].response.error = "DUPLICATE_BOOKMARK"
                 /\ bookmarks' = bookmarks
            ELSE /\ calls'[c].response.status = 201
                 /\ \E b \in bookmarks' :
                       /\ bookmarks' = bookmarks \cup {b}
                       /\ b \notin bookmarks
                       /\ SameKey(b, calls[c].new_bookmark)
                       /\ calls'[c].response.body.id = b.id

C28_BookmarkUniqueness ==
    []UniqueBookmarks /\ [][DuplicateAnswers409]_vars

\* two requests of user 1 for article 760 of the civil code, written in two
\* ways: the one received first is flushed last and answers 409
C28_Witness ==
    /\ Len(calls) >= 2
    /\ calls[1].pc = "done" /\ calls[1].op = "create_bookmark"
    /\ calls[2].pc = "done" /\ calls[2].op = "create_bookmark"
    /\ calls[1].who = 1 /\ calls[2].who = 1
    /\ calls[1].response.status = 409
    /\ calls[2].response.status = 201
    /\ calls[2].response.body.lawCode = "CIVIL_CODE"
    /\ calls[2].response.body.articleNo = <<"7", "6", "0">>
    /\ Cardinality(bookmarks) = 1

(***************************************************************************)
(* C29  Bookmark ownership: a stored bookmark disappears only in the       *)
(* commit of a delete_bookmark request whose caller, the user the signed   *)
(* token names, owns it; a delete request of an authenticated caller that  *)
(* names an id which is not stored or is stored for another user answers   *)
(* 404 and changes no bookmark; a request without a valid token answers    *)
(* 401 and changes nothing; get_bookmarks returns only bookmarks stored    *)
(* for its caller.                                                         *)
(***************************************************************************)
\* the user a cookie authenticates, 0 when it authenticates nobody
Caller(token) ==
    IF token # None /\ token.signed
          /\ \E u \in users : u.id = token.payload.sub
    THEN token.payload.sub ELSE 0

\* the step in which a request for op is received, as call n
Receives(n, op) ==
    /\ n = Len(calls) + 1
    /\ Len(calls') = n
    /\ calls'[n].op = op

OwnerOnly ==
    /\ \A b \in bookmarks \ bookmarks' :
          \E c \in DOMAIN calls :
              /\ Commits(c, "delete_bookmark")
              /\ calls[c].request.bookmark_id = b.id
              /\ Caller(calls[c].request.token) = b.user_id
              /\ calls'[c].response.status = 204
    /\ \A n \in 1..MaxCalls :
          Receives(n, "delete_bookmark") =>
              LET request == calls'[n].request IN
              /\ Caller(request.token) = 0 =>
                    /\ calls'[n].response.status = 401
                    /\ calls'[n].pc = "done"
              /\ (/\ Caller(request.token) # 0
                  /\ ~\E b \in bookmarks :
                        /\ b.id = request.bookmark_id
                        /\ b.user_id = Caller(request.token)) =>
                    /\ calls'[n].pc = "done"
                    /\ calls'[n].response.status = 404
              /\ bookmarks' = bookmarks
    /\ \A n \in 1..MaxCalls :
          Receives(n, "get_bookmarks") =>
              /\ bookmarks' = bookmarks
              /\ Caller(calls'[n].request.token) = 0 =>
                    calls'[n].response.status = 401
              /\ Caller(calls'[n].request.token) # 0 =>
                    /\ calls'[n].response.status = 200
                    /\ \A k \in DOMAIN calls'[n].response.body :
                          \E b \in bookmarks :
                              /\ BookmarkOut(b) = calls'[n].response.body[k]
                              /\ b.user_id = Caller(calls'[n].request.token)

C29_BookmarkOwnership == [][OwnerOnly]_vars

\* user 1 stores a bookmark; user 2 asks to delete it and gets 404; so does
\* the holder of a token for user 1 that the service did not sign (401);
\* the bookmark is still there
C29_Witness ==
    /\ Len(calls) = 3
    /\ \A c \in 1..3 : calls[c].pc = "done"
    /\ calls[1].op = "create_bookmark" /\ calls[1].who = 1
    /\ calls[1].response.status = 201
    /\ calls[2].op = "delete_bookmark"
    /\ calls[2].request.token = create_access_token([sub |-> 2])
    /\ calls[2].request.bookmark_id = calls[1].response.body.id
    /\ calls[2].response.status = 404
    /\ calls[3].op = "delete_bookmark"
    /\ calls[3].request.token = [signed |-> FALSE, payload |-> [sub |-> 1]]
    /\ calls[3].request.bookmark_id = calls[1].response.body.id
    /\ calls[3].response.status = 401
    /\ \E b \in bookmarks : b.id = calls[1].response.body.id /\ b.user_id = 1

(***************************************************************************)
(* C30  One user per identity: in every interleaving of OAuth callbacks    *)
(* table users has at most one row per (provider, provider_id).  A         *)
(* callback that finds a row of its identity updates the email and name of *)
(* that row and adds none; a callback that found none INSERTs one, unless  *)
(* a row of the identity has been committed meanwhile: then it ends in the *)
(* redirect to the error page, without a token and without a change.       *)
(* Every callback that ended with a token carries the id of the one row of *)
(* its identity as the subject.                                            *)
(***************************************************************************)
SameIdentity(u, provider, provider_id) ==
    u.provider = provider /\ u.provider_id = provider_id

OneUserPerIdentity ==
    \A a, b \in users :
        (SameIdentity(a, b.provider, b.provider_id) \/ a.id = b.id) => a = b

TokenNamesTheRow ==
    \A c \in DOMAIN calls :
        (/\ calls[c].op = "auth_callback"
         /\ calls[c].pc = "done"
         /\ calls[c].response.status = 307
         /\ calls[c].response.access_token # None) =>
            \E u \in users :
                /\ SameIdentity(u, calls[c].request.provider,
                                calls[c].request.user_info.provider_id)
                /\ verify_token(calls[c].response.access_token[1])
                      = Some([sub |-> u.id])

UpsertStep ==
    \A c \in DOMAIN calls :
        Commits(c, "auth_callback") =>
            LET provider == calls[c].request.provider
                info == calls[c].request.user_info
                rows == {u \in users : SameIdentity(u, provider, info.provider_id)}
                rowsAfter == {u \in users' :
                                 SameIdentity(u, provider, info.provider_id)}
            IN  IF calls[c].user # None
                THEN /\ Cardinality(users') = Cardinality(users)
                     /\ \E u \in rowsAfter :
                           /\ u.id = calls[c].user[1]
                           /\ u.email = info.email
                           /\ u.name = info.name
                     /\ calls'[c].response.access_token # None
                ELSE IF rows # {}
                THEN /\ users' = users
                     /\ calls'[c].response.access_token = None
                     /\ calls'[c].response.url = "/auth/error"
                ELSE /\ \E u \in users' :
                           /\ users' = users \cup {u}
                           /\ u \notin users
                           /\ SameIdentity(u, provider, info.provider_id)
                           /\ u.email = info.email
                           /\ u.name = info.name
                     /\ calls'[c].response.access_token # None

C30_OneUserPerIdentity ==
    [](OneUserPerIdentity /\ TokenNamesTheRow) /\ [][UpsertStep]_vars

\* two first logins of one identity race, the second to commit ends on the
\* error page; a later login with another email updates the one row
C30_Witness ==
    /\ Len(calls) = 3
    /\ \A c \in 1..3 : /\ calls[c].pc = "done"
                       /\ calls[c].request.provider = "google"
                       /\ "email" \in DOMAIN calls[c].request.user_info
    /\ calls[1].response.access_token = None
    /\ calls[2].response.access_token # None
    /\ calls[3].response.access_token = calls[2].response.access_token
    /\ calls[2].request.user_info.email = "a@x"
    /\ calls[3].request.user_info.email = "b@x"
    /\ users = {[id |-> 1, provider |-> "google", provider_id |-> "p1",
                 email |-> "b@x", name |-> "B"]}

====
